---- MODULE Spec2Model ----
(***************************************************************************)
(* A model of the UltraDNS REST client: the RestApiClient facade           *)
(* (ultra_rest_client.py) on top of the authenticated transport            *)
(* (RestApiConnection), together with the provider's token service.        *)
(*                                                                         *)
(* The facade's constructor and export_zone are translated from            *)
(* ultra_rest_client.py.  The transport lives in connection.py, which the  *)
(* facade imports; its request / refresh / retry policy is written here    *)
(* from section 4.1 of the specification, step by step.                    *)
(***************************************************************************)
EXTENDS Integers, Sequences, FiniteSets, TLC

\* ------------------------------------------------------------------ bounds
\* Tokens the provider issues in one behaviour (two are issued before the
\* client exists).
MaxTok == 5
\* Task-status polls one export_zone may make in the model.
MaxPolls == 3

\* ------------------------------------------------------------ Python values
\* None, and the truth value of an optional string (None and "" are falsy).
NONE == "<None>"
\* An attribute that was never assigned.
UNSET == "<unset>"
\* str(v), as an f-string formats v.
Str(v) == IF v = NONE THEN "None" ELSE v
Truthy(v) == v \notin {NONE, ""}

\* The n-th token the provider issues.
Tok(n) == ToString(n)

\* A response body: the fields the client reads (a missing key is NONE).
NoBody == [task_id |-> NONE, code |-> NONE, data |-> NONE]

\* What a transport call hands back: a parsed body, or an error.
NoOut == [kind |-> "none", status |-> 0, body |-> NoBody]
Ok(b) == [kind |-> "ok", status |-> 200, body |-> b]
AuthError(st) == [kind |-> "AuthError", status |-> st, body |-> NoBody]
ApiError(st) == [kind |-> "ApiError", status |-> st, body |-> NoBody]

\* What a facade method hands back to its caller.
NoRet == [kind |-> "none", exc |-> NONE, body |-> NoBody]
Return(b) == [kind |-> "return", exc |-> NONE, body |-> b]
Raise(e) == [kind |-> "raise", exc |-> e, body |-> NoBody]

\* A Python value the facade handles as data: None, True, an int, a str, a
\* list or a dict (its items in insertion order).  Every value has the same
\* shape: a tag, a scalar's text, and a container's items.
PyNone == [t |-> "none", s |-> "", kids |-> <<>>]
PyTrue == [t |-> "bool", s |-> "True", kids |-> <<>>]
PyInt(n) == [t |-> "int", s |-> ToString(n), kids |-> <<>>]
PyStr(s) == [t |-> "str", s |-> s, kids |-> <<>>]
PyList(vs) == [t |-> "list", s |-> "", kids |-> [i \in 1..Len(vs) |-> [k |-> "", v |-> vs[i]]]]
PyDict(kvs) == [t |-> "dict", s |-> "", kids |-> [i \in 1..Len(kvs) |-> [k |-> kvs[i][1], v |-> kvs[i][2]]]]

\* isinstance(v, list), and the truth value of v in `if v:`.
IsList(v) == v.t = "list"
PyTruthy(v) ==
    CASE v.t = "none" -> FALSE
      [] v.t = "str" -> v.s # ""
      [] v.t \in {"list", "dict"} -> Len(v.kids) > 0
      [] OTHER -> v.s \notin {"0", "False"}

\* d[key], d[key] = value and d.copy() on a dict.
HasKey(d, key) == \E i \in 1..Len(d.kids) : d.kids[i].k = key
GetItem(d, key) == d.kids[CHOOSE i \in 1..Len(d.kids) : d.kids[i].k = key].v
SetItem(d, key, value) ==
    IF HasKey(d, key)
    THEN [d EXCEPT !.kids = [i \in 1..Len(d.kids) |->
                IF d.kids[i].k = key THEN [k |-> key, v |-> value] ELSE d.kids[i]]]
    ELSE [d EXCEPT !.kids = Append(d.kids, [k |-> key, v |-> value])]

\* sep.join(parts).
RECURSIVE join(_, _)
join(sep, parts) ==
    IF Len(parts) = 0 THEN ""
    ELSE IF Len(parts) = 1 THEN parts[1]
    ELSE parts[1] \o sep \o join(sep, Tail(parts))

\* f"{v}" for a scalar v.
Format(v) == IF v.t = "none" THEN "None" ELSE v.s

\* json.dumps(v), with the default separators.
RECURSIVE json_dumps(_)
json_dumps(v) ==
    CASE v.t = "none" -> "null"
      [] v.t = "bool" -> IF v.s = "True" THEN "true" ELSE "false"
      [] v.t = "int" -> v.s
      [] v.t = "str" -> "\"" \o v.s \o "\""
      [] v.t = "list" ->
            "[" \o join(", ", [i \in 1..Len(v.kids) |-> json_dumps(v.kids[i].v)]) \o "]"
      [] v.t = "dict" ->
            "{" \o join(", ", [i \in 1..Len(v.kids) |->
                    "\"" \o v.kids[i].k \o "\": " \o json_dumps(v.kids[i].v)]) \o "}"

VARIABLES
    \* RestApiClient
    args,                \* the arguments __init__ was called with
    cstate,              \* "none" | "ready" | "raised": how __init__ ended
    cexc,                \* the exception __init__ raised, or NONE
    self_access_token,   \* RestApiClient.access_token (set in token mode only)
    self_refresh_token,  \* RestApiClient.refresh_token (set in token mode only)
    warned,              \* the constructor printed its warning
    init_calls,          \* what __init__ called on the connection, in order
    conn_options,        \* the options RestApiConnection(...) was given
    \* RestApiConnection
    conn,                \* [exists, access_token, refresh_token, state]
    tpc,                 \* "idle" | "send" | "refresh" | "retry" | "done"
    treq,                \* the request in progress: [verb, path, body]
    tout,                \* its outcome
    http,                \* HTTP calls of the transport call in progress
    conn0,               \* credentials when the transport call started
    threads,             \* requests that callers run on the connection at once
    \* facade method in progress
    op,                  \* "idle", or the name of the method in progress
    margs,               \* the method's name and arguments, as the caller holds them
    epc,                 \* export_zone's position
    calls,               \* transport calls the method has issued, with results
    sleeps,              \* time.sleep calls the method has made
    task_id,             \* export_zone's local
    result,              \* export_zone's local
    ret,                 \* what the method handed back
    \* provider
    srvAccess,           \* access tokens the provider accepts
    srvRefresh,          \* refresh tokens the provider accepts
    nextTok              \* number of the next token to issue

vars == <<args, cstate, cexc, self_access_token, self_refresh_token, warned,
          init_calls, conn_options, conn, threads,
          tpc, treq, tout, http, conn0, op, margs, epc, calls, sleeps, task_id,
          result, ret,
          srvAccess, srvRefresh, nextTok>>

clientVars == <<args, cstate, cexc, self_access_token, self_refresh_token, warned,
                init_calls, conn_options>>
reqVars == <<tpc, treq, tout, http, conn0>>
opVars == <<op, margs, epc, calls, sleeps, task_id, result, ret>>
srvVars == <<srvAccess, srvRefresh, nextTok>>

\* ---------------------------------------------------------------- provider
\* The account the provider knows.
Username == "user"
Password == "pw"

\* Status of an API call made with bearer token t: 401 exactly when the
\* provider does not (or no longer) accept t.
ApiStatus(t) == IF t \in srvAccess THEN {200, 500} ELSE {401}

Zones == {"z.com"}
TaskIds == {"T1", "T2"}

\* Bodies the provider may send with a 200, by endpoint.
Bodies(req) ==
    CASE req.path[1] = "v3" ->
            {[NoBody EXCEPT !.task_id = t] : t \in TaskIds \cup {NONE}}
      [] req.path[2] = "tasks" /\ req.verb = "GET" /\ Len(req.path) = 3 ->
            {[NoBody EXCEPT !.code = c] :
                c \in {"IN_PROCESS", "COMPLETE", "ERROR", NONE}}
      [] req.path[2] = "tasks" /\ req.verb = "GET" /\ Len(req.path) = 4 ->
            {[NoBody EXCEPT !.data = d] : d \in {"zonefile1", "zonefile2"}}
      [] req.path[2] = "tasks" /\ req.verb = "DELETE" ->
            {[NoBody EXCEPT !.data = "{}"]}
      [] OTHER -> {[NoBody EXCEPT !.data = "metadata"]}

\* The tokens a client can present: those its connection stores, or before
\* there is a connection those issued to the user beforehand.  (Whether any
\* other token is accepted can never be observed.)
HeldAccess == IF conn.exists THEN {conn.access_token} ELSE {Tok(1)}
HeldRefresh == IF conn.exists THEN {conn.refresh_token} ELSE {Tok(2)}

\* An access token stops being accepted (it expires after about an hour).
ExpireAccess ==
    /\ \E t \in srvAccess \cap HeldAccess : srvAccess' = srvAccess \ {t}
    /\ UNCHANGED <<clientVars, threads, conn, reqVars, opVars, srvRefresh, nextTok>>

\* A refresh token stops being accepted.
ExpireRefresh ==
    /\ \E t \in srvRefresh \cap HeldRefresh : srvRefresh' = srvRefresh \ {t}
    /\ UNCHANGED <<clientVars, threads, conn, reqVars, opVars, srvAccess, nextTok>>

\* ------------------------------------------------------- RestApiConnection
NoConn == [exists |-> FALSE, access_token |-> NONE, refresh_token |-> NONE,
           state |-> "Unauthenticated"]

\* RestApiConnection(use_http, host, access, refresh, ...): a connection that
\* holds the tokens it is given.
NewConn(access, refresh) ==
    [exists |-> TRUE, access_token |-> access, refresh_token |-> refresh,
     state |-> IF Truthy(access) THEN "Authenticated" ELSE "Unauthenticated"]

\* One HTTP call, as the log keeps it.
Call(kind, req, token, st) ==
    [kind |-> kind, verb |-> req.verb, path |-> req.path, token |-> token,
     status |-> st]

AuthReq == [verb |-> "POST", path |-> <<"v1", "authorization", "token">>,
            body |-> PyNone]

\* authenticate(username, password) on connection c: the credentials are
\* exchanged at the token endpoint for an access token and a refresh token;
\* invalid credentials fail with AuthError and store nothing.
authenticate(c, u, p) ==
    IF u = Username /\ p = Password
    THEN /\ nextTok + 1 <= MaxTok
         /\ conn' = [c EXCEPT !.access_token = Tok(nextTok),
                              !.refresh_token = Tok(nextTok + 1),
                              !.state = "Authenticated"]
         /\ srvAccess' = srvAccess \cup {Tok(nextTok)}
         /\ srvRefresh' = srvRefresh \cup {Tok(nextTok + 1)}
         /\ nextTok' = nextTok + 2
         /\ http' = <<Call("auth", AuthReq, NONE, 200)>>
         /\ tout' = Ok(NoBody)
    ELSE /\ conn' = c
         /\ http' = <<Call("auth", AuthReq, NONE, 401)>>
         /\ tout' = AuthError(401)
         /\ UNCHANGED srvVars

\* request(method, path, body): entry.  Nothing has been sent yet.
StartRequest(verb, path, body) ==
    /\ tpc' = "send"
    /\ treq' = [verb |-> verb, path |-> path, body |-> body]
    /\ tout' = NoOut
    /\ http' = <<>>
    /\ conn0' = conn

\* The transport call has handed its outcome to the caller.
EndRequest ==
    /\ tpc' = "idle"
    /\ treq' = [verb |-> NONE, path |-> <<>>, body |-> PyNone]
    /\ tout' = NoOut
    /\ http' = <<>>
    /\ conn0' = NoConn

\* request, step 3: a response asks for a refresh when it is the 401 of the
\* first attempt and a refresh token is stored.
ShouldRefresh_AnyAttempt(attempt, st, c) ==
    st = 401 /\ Truthy(c.refresh_token)
ShouldRefresh_AnyError(attempt, st, c) ==
    attempt = 1 /\ st # 200 /\ Truthy(c.refresh_token)
ShouldRefresh_NoTokenCheck(attempt, st, c) ==
    attempt = 1 /\ st = 401

ShouldRefresh(attempt, st, c) ==
    attempt = 1 /\ st = 401 /\ Truthy(c.refresh_token)

\* request, steps 4-5: the error a response that is not refreshed is surfaced
\* as.  The first attempt's 401 is an AuthError, every other status an
\* ApiError carrying it.
ErrorFor(attempt, st) ==
    IF attempt = 1 /\ st = 401 THEN AuthError(st) ELSE ApiError(st)

\* One attempt of the request: it is sent with the stored bearer token
\* (steps 1-2) and its status is dispatched on (steps 3-6).
request_attempt(attempt) ==
    \E st \in ApiStatus(conn.access_token) :
        /\ http' = Append(http, Call("api", treq, conn.access_token, st))
        /\ IF st = 200
           THEN \E b \in Bodies(treq) : tout' = Ok(b) /\ tpc' = "done"
           ELSE IF ShouldRefresh(attempt, st, conn)
           THEN tpc' = "refresh" /\ tout' = tout
           ELSE tpc' = "done" /\ tout' = ErrorFor(attempt, st)

\* request: the first attempt.
request_send ==
    /\ tpc = "send"
    /\ request_attempt(1)
    /\ UNCHANGED <<clientVars, threads, conn, treq, conn0, opVars, srvVars>>

\* request, step 3: the new access token replaces the stored one.
StoreRefreshed_Dropped(c, access) == c

StoreRefreshed(c, access) ==
    [c EXCEPT !.access_token = access, !.state = "Authenticated"]

\* request, step 4 and the state machine's Authenticated -> Failed: the
\* refresh itself is answered 401.  The credentials are Failed and the
\* original 401 is surfaced as AuthError.
RefreshRejected_Ignored ==
    /\ tpc' = "retry"
    /\ UNCHANGED <<conn, tout>>

RefreshRejected ==
    /\ conn' = [conn EXCEPT !.state = "Failed"]
    /\ tout' = AuthError(401)
    /\ tpc' = "done"

\* request, step 4: the refresh fails in any other way.  The original 401 is
\* surfaced as AuthError.
RefreshFailed_Retries ==
    /\ tpc' = "retry"
    /\ UNCHANGED <<conn, tout>>

RefreshFailed ==
    /\ tout' = AuthError(401)
    /\ tpc' = "done"
    /\ UNCHANGED conn

\* request, step 3 (first half) and step 4: the refresh token is exchanged
\* for a new access token.
request_refresh ==
    /\ tpc = "refresh"
    /\ \/ /\ conn.refresh_token \in srvRefresh
          /\ nextTok <= MaxTok
          /\ http' = Append(http, Call("refresh", AuthReq, conn.refresh_token, 200))
          /\ conn' = StoreRefreshed(conn, Tok(nextTok))
          /\ srvAccess' = srvAccess \cup {Tok(nextTok)}
          /\ nextTok' = nextTok + 1
          /\ tpc' = "retry"
          /\ UNCHANGED <<tout, srvRefresh>>
       \/ /\ conn.refresh_token \notin srvRefresh
          /\ http' = Append(http, Call("refresh", AuthReq, conn.refresh_token, 401))
          /\ RefreshRejected
          /\ UNCHANGED srvVars
       \/ /\ conn.refresh_token \in srvRefresh
          /\ http' = Append(http, Call("refresh", AuthReq, conn.refresh_token, 500))
          /\ RefreshFailed
          /\ UNCHANGED srvVars
    /\ UNCHANGED <<clientVars, threads, treq, conn0, opVars>>

\* request, step 3 (second half): the original request is sent once more
\* with the new bearer token; whatever comes back is final.
request_retry ==
    /\ tpc = "retry"
    /\ request_attempt(2)
    /\ UNCHANGED <<clientVars, threads, conn, treq, conn0, opVars, srvVars>>

\* ---------------------------------- RestApiConnection, called concurrently
\* Two callers that share the connection.  Nothing synchronises them (spec,
\* section 5): each HTTP call and each store into a field of the connection
\* is a step of its own, and the steps of the two interleave freely.
Threads == {1, 2}

\* A caller's request: where it is, the bearer token its first attempt
\* carried, how many refreshes it has made, the refresh response it holds and
\* its outcome.
NoThread ==
    [pc |-> "idle", sent |-> NONE, refreshes |-> 0, access |-> NONE,
     refresh |-> NONE, out |-> NoOut]

\* The refresh token that comes with the n-th token response.
RefreshTok(n) == "R" \o ToString(n)

\* One attempt of a caller's request: sent with the access token stored at
\* that moment, dispatched on as in request_attempt.
thread_attempt(t, attempt) ==
    \E st \in ApiStatus(conn.access_token) :
        LET sent == IF attempt = 1 THEN conn.access_token ELSE threads[t].sent
        IN  IF st = 200
            THEN threads' = [threads EXCEPT ![t].pc = "done", ![t].sent = sent,
                                            ![t].out = Ok(NoBody)]
            ELSE IF ShouldRefresh(attempt, st, conn)
            THEN threads' = [threads EXCEPT ![t].pc = "refresh", ![t].sent = sent]
            ELSE threads' = [threads EXCEPT ![t].pc = "done", ![t].sent = sent,
                                            ![t].out = ErrorFor(attempt, st)]

thread_send(t) ==
    /\ cstate = "ready"
    /\ threads[t].pc = "idle"
    /\ thread_attempt(t, 1)
    /\ UNCHANGED <<clientVars, conn, reqVars, opVars, srvVars>>

\* The refresh call of caller t, made with the refresh token stored at that
\* moment.  The token response carries the new access token and a refresh
\* token: the one that was sent, or a new one when the provider rotates it.
\* The caller holds the response; nothing is stored yet.
thread_refresh(t) ==
    /\ threads[t].pc = "refresh"
    /\ \/ /\ conn.refresh_token \in srvRefresh
          /\ nextTok <= MaxTok
          /\ \E r \in {conn.refresh_token, RefreshTok(nextTok)} :
                /\ threads' = [threads EXCEPT ![t].pc = "store_access",
                                   ![t].refreshes = @ + 1,
                                   ![t].access = Tok(nextTok),
                                   ![t].refresh = r]
                /\ srvRefresh' = srvRefresh \cup {r}
          /\ srvAccess' = srvAccess \cup {Tok(nextTok)}
          /\ nextTok' = nextTok + 1
          /\ UNCHANGED conn
       \/ /\ conn.refresh_token \notin srvRefresh
          /\ threads' = [threads EXCEPT ![t].pc = "done",
                             ![t].refreshes = @ + 1,
                             ![t].out = AuthError(401)]
          /\ conn' = [conn EXCEPT !.state = "Failed"]
          /\ UNCHANGED srvVars
       \/ /\ conn.refresh_token \in srvRefresh
          /\ threads' = [threads EXCEPT ![t].pc = "done",
                             ![t].refreshes = @ + 1,
                             ![t].out = AuthError(401)]
          /\ UNCHANGED <<conn, srvVars>>
    /\ UNCHANGED <<clientVars, reqVars, opVars>>

\* "update stored credentials", first field: the access token.
thread_store_access(t) ==
    /\ threads[t].pc = "store_access"
    /\ conn' = StoreRefreshed(conn, threads[t].access)
    /\ threads' = [threads EXCEPT ![t].pc = "store_refresh"]
    /\ UNCHANGED <<clientVars, reqVars, opVars, srvVars>>

\* A variant that stores the response's refresh token only into credentials
\* that still hold this response's access token.
StoredRefreshToken_IfOwnAccess(c, t) ==
    IF c.access_token = threads[t].access THEN threads[t].refresh
    ELSE c.refresh_token

\* The refresh token caller t stores.
StoredRefreshToken(c, t) == threads[t].refresh

\* "update stored credentials", second field: the refresh token.
thread_store_refresh(t) ==
    /\ threads[t].pc = "store_refresh"
    /\ conn' = [conn EXCEPT !.refresh_token = StoredRefreshToken(conn, t)]
    /\ threads' = [threads EXCEPT ![t].pc = "retry"]
    /\ UNCHANGED <<clientVars, reqVars, opVars, srvVars>>

\* The retry of caller t, with the access token stored at that moment.
thread_retry(t) ==
    /\ threads[t].pc = "retry"
    /\ thread_attempt(t, 2)
    /\ UNCHANGED <<clientVars, conn, reqVars, opVars, srvVars>>

\* ----------------------------------------------------------- RestApiClient
\* Arguments the model constructs clients with.
\* a bearer token and an optional refresh token, or a user name and an
\* optional (right or wrong) password.
BuArgs(use_token) == IF use_token THEN {Tok(1)} ELSE {Username}
PrArgs(use_token) ==
    IF use_token THEN {NONE, "", Tok(2)} ELSE {NONE, "", Password, "bad"}

\* The keyword options of __init__, with their defaults, and a set of
\* options that differs from the defaults in every one of them.
DefaultOptions ==
    [use_http |-> FALSE, host |-> "api.ultradns.com", custom_headers |-> NONE,
     proxy |-> NONE, verify_https |-> TRUE]
CustomOptions ==
    [use_http |-> TRUE, host |-> "test.example", custom_headers |-> "X-Trace: 1",
     proxy |-> "http://proxy:3128", verify_https |-> FALSE]

\* An argument the call leaves to the callee's default.
NotPassed == "<not passed>"

\* The call RestApiConnection(use_http, host, access_token, refresh_token,
\* custom_headers=..., proxy=..., verify_https=...), as the constructor's log
\* keeps it ...
ConnectionCall(access_token, refresh_token) ==
    [fn |-> "RestApiConnection", a |-> access_token, b |-> refresh_token]

\* ... and the options the connection is built with.  (A variant first, one
\* that does not pass the proxy on.)
ConnectionOptions_ProxyDropped(use_http, host, custom_headers, proxy, verify_https) ==
    [use_http |-> use_http, host |-> host, custom_headers |-> custom_headers,
     proxy |-> NONE, verify_https |-> verify_https]

ConnectionOptions(use_http, host, custom_headers, proxy, verify_https) ==
    [use_http |-> use_http, host |-> host, custom_headers |-> custom_headers,
     proxy |-> proxy, verify_https |-> verify_https]
\* The call rest_api_connection.auth(username, password).
AuthCall(username, password) == [fn |-> "auth", a |-> username, b |-> password]

\* A variant that tests `pr is None` and so lets an empty password through.
PasswordMissing_OnlyNone(pr) == pr = NONE

\* `if not pr` (the password is None or empty).
PasswordMissing(pr) == ~Truthy(pr)

\* A variant of the use_token branch that does what the docstring announces:
\* ValueError when no refresh token comes with the bearer token.
InitWithToken_Strict(bu, pr, kw) ==
    IF Truthy(pr)
    THEN /\ self_access_token' = bu
         /\ self_refresh_token' = pr
         /\ conn' = NewConn(bu, pr)
         /\ init_calls' = <<ConnectionCall(bu, pr)>>
         /\ conn_options' = ConnectionOptions(kw.use_http, kw.host,
                                kw.custom_headers, kw.proxy, kw.verify_https)
         /\ warned' = FALSE
         /\ cstate' = "ready"
         /\ UNCHANGED <<cexc, http, tout, srvVars>>
    ELSE /\ cstate' = "raised"
         /\ cexc' = "ValueError"
         /\ UNCHANGED <<self_access_token, self_refresh_token, warned,
                        init_calls, conn_options, conn, http, tout, srvVars>>

\* __init__, use_token branch: the tokens are stored on the client and handed
\* to the connection; a missing refresh token is only warned about.
InitWithToken(bu, pr, kw) ==
    /\ self_access_token' = bu
    /\ self_refresh_token' = pr
    /\ conn' = NewConn(bu, pr)
    /\ init_calls' = <<ConnectionCall(bu, pr)>>
    /\ conn_options' = ConnectionOptions(kw.use_http, kw.host,
                           kw.custom_headers, kw.proxy, kw.verify_https)
    /\ warned' = ~Truthy(self_refresh_token')
    /\ cstate' = "ready"
    /\ UNCHANGED <<cexc, http, tout, srvVars>>

\* A variant that catches the failure of auth() and hands the client back.
AuthOutcome_Swallowed(out) == [cstate |-> "ready", cexc |-> NONE]

\* How __init__ ends after self.rest_api_connection.auth(bu, pr): nothing
\* catches what auth raises, so its failure is the constructor's.
AuthOutcome(out) ==
    IF out.kind = "ok" THEN [cstate |-> "ready", cexc |-> NONE]
    ELSE [cstate |-> "raised", cexc |-> out.kind]

\* __init__, username branch: ValueError without a password; otherwise the
\* connection is created and auth(bu, pr) is called on it, whose failure
\* leaves the constructor.
InitWithPassword(bu, pr, kw) ==
    IF PasswordMissing(pr)
    THEN /\ cstate' = "raised"
         /\ cexc' = "ValueError"
         /\ UNCHANGED <<self_access_token, self_refresh_token, warned,
                        init_calls, conn_options, conn, http, tout, srvVars>>
    ELSE /\ init_calls' = <<ConnectionCall(NotPassed, NotPassed), AuthCall(bu, pr)>>
         /\ conn_options' = ConnectionOptions(kw.use_http, kw.host,
                                kw.custom_headers, kw.proxy, kw.verify_https)
         /\ authenticate(NewConn("", ""), bu, pr)
         /\ cstate' = AuthOutcome(tout').cstate
         /\ cexc' = AuthOutcome(tout').cexc
         /\ UNCHANGED <<self_access_token, self_refresh_token, warned>>

\* RestApiClient.__init__(bu, pr, use_token, ...); kw holds the five options
\* use_http, host, custom_headers, proxy and verify_https.
RestApiClient_init(bu, pr, use_token, kw) ==
    /\ cstate = "none"
    /\ args' = [bu |-> bu, pr |-> pr, use_token |-> use_token, kw |-> kw]
    /\ IF use_token THEN InitWithToken(bu, pr, kw) ELSE InitWithPassword(bu, pr, kw)
    /\ UNCHANGED <<tpc, treq, conn0, opVars, threads>>

\* rest_api_connection.auth(bu, pr) called again on a constructed client:
\* the caller, told by an AuthError that the session is over, re-authenticates
\* from scratch.
reauthenticate(u, p) ==
    /\ cstate = "ready"
    /\ op = "idle"
    /\ tpc = "idle"
    /\ ret.exc = "AuthError"
    /\ authenticate(conn, u, p)
    /\ UNCHANGED <<clientVars, threads, tpc, treq, conn0, opVars>>

\* A variant that answers a failed call with an empty result.
ReturnedValue_Swallowed(out) ==
    IF out.kind = "ok" THEN Return(out.body) ELSE Return(NoBody)

\* `return self.rest_api_connection.<verb>(...)`: the value of the transport
\* call is the method's, and so is the exception it raises.
ReturnedValue(out) ==
    IF out.kind = "ok" THEN Return(out.body) ELSE Raise(out.kind)

\* A facade method may start: the client exists and no method is running.
Idle == cstate = "ready" /\ op = "idle" /\ tpc = "idle"

\* get_zone_metadata(zone_name): one GET, handed to the transport.
get_zone_metadata(zone_name) ==
    /\ Idle
    /\ StartRequest("GET", <<"v1", "zones", zone_name>>, PyNone)
    /\ op' = "get_zone_metadata"
    /\ margs' = [method |-> "get_zone_metadata", zone_name |-> zone_name]
    /\ calls' = <<[verb |-> "GET", path |-> <<"v1", "zones", zone_name>>,
                   res |-> NoOut]>>
    /\ ret' = NoRet
    /\ sleeps' = <<>>
    /\ UNCHANGED <<clientVars, threads, conn, epc, task_id, result, srvVars>>

\* ... and its return: the transport's result, unchanged.
get_zone_metadata_return ==
    /\ op = "get_zone_metadata"
    /\ tpc = "done"
    /\ ret' = ReturnedValue(tout)
    /\ calls' = [calls EXCEPT ![Len(calls)].res = tout]
    /\ op' = "idle"
    /\ EndRequest
    /\ UNCHANGED <<clientVars, threads, conn, margs, epc, sleeps, task_id, result,
                   srvVars>>

\* A transport call as a facade method's log keeps it.
Issued(verb, path) == [verb |-> verb, path |-> path, res |-> NoOut]
\* The log with the result of the call that just came back filled in.
Answered == [calls EXCEPT ![Len(calls)].res = tout]
\* The task-status polls among the calls of a log.
IsPoll(c) == c.verb = "GET" /\ Len(c.path) = 3 /\ c.path[2] = "tasks"
NumPolls(log) == Cardinality({i \in 1..Len(log) : IsPoll(log[i])})

\* export_zone(zone_name): the export is requested.
export_zone(zone_name) ==
    /\ Idle
    /\ StartRequest("POST", <<"v3", "zones", "export">>,
            PyStr(json_dumps(PyDict(<< <<"zoneNames", PyList(<<PyStr(zone_name)>>)>> >>))))
    /\ op' = "export_zone"
    /\ margs' = [method |-> "export_zone", zone_name |-> zone_name]
    /\ epc' = "post"
    /\ calls' = <<Issued("POST", <<"v3", "zones", "export">>)>>
    /\ task_id' = NONE
    /\ result' = NoBody
    /\ ret' = NoRet
    /\ sleeps' = <<>>
    /\ UNCHANGED <<clientVars, threads, conn, srvVars>>

\* A variant that deletes the task record before a failed poll or result
\* fetch is passed on.
export_zone_raise_Cleanup ==
    /\ op = "export_zone"
    /\ tpc = "done"
    /\ tout.kind # "ok"
    /\ IF epc \in {"poll", "result"}
       THEN /\ StartRequest("DELETE", <<"v1", "tasks", Str(task_id)>>, PyNone)
            /\ calls' = Append(Answered, Issued("DELETE", <<"v1", "tasks", Str(task_id)>>))
            /\ epc' = "clear"
            /\ UNCHANGED <<op, ret>>
       ELSE /\ ret' = Raise(tout.kind)
            /\ calls' = Answered
            /\ op' = "idle"
            /\ epc' = "none"
            /\ EndRequest
    /\ UNCHANGED <<clientVars, threads, conn, margs, sleeps, task_id, result, srvVars>>

\* Any transport call of export_zone that raises: nothing catches it.
export_zone_raise ==
    /\ op = "export_zone"
    /\ tpc = "done"
    /\ tout.kind # "ok"
    /\ ret' = Raise(tout.kind)
    /\ calls' = Answered
    /\ op' = "idle"
    /\ epc' = "none"
    /\ EndRequest
    /\ UNCHANGED <<clientVars, threads, conn, margs, sleeps, task_id, result, srvVars>>

\* task_id = status.get('task_id'), then the first pass of the loop polls.
export_zone_after_post ==
    /\ op = "export_zone"
    /\ epc = "post"
    /\ tpc = "done"
    /\ tout.kind = "ok"
    /\ task_id' = tout.body.task_id
    /\ StartRequest("GET", <<"v1", "tasks", Str(task_id')>>, PyNone)
    /\ calls' = Append(Answered, Issued("GET", <<"v1", "tasks", Str(task_id')>>))
    /\ epc' = "poll"
    /\ UNCHANGED <<clientVars, threads, conn, op, margs, sleeps, result, ret, srvVars>>

\* A variant that waits longer after every poll.
SleepSeconds_BackingOff == NumPolls(calls)

\* time.sleep(1): the seconds slept between two polls.
SleepSeconds == 1

\* A sleep of the method, with the number of calls made before it.
Sleep(secs) == [after |-> Len(calls), secs |-> secs]

\* A loop that gives up after a number of polls.
PollingDone_MaxAttempts(task_status) ==
    task_status.code # "IN_PROCESS" \/ NumPolls(calls) >= 2

\* if task_status['code'] != 'IN_PROCESS': break
PollingDone(task_status) == task_status.code # "IN_PROCESS"

\* One pass of `while True`, after the poll came back: on break the result is
\* fetched, otherwise time.sleep(1).  A body without 'code' raises KeyError.
export_zone_after_poll ==
    /\ op = "export_zone"
    /\ epc = "poll"
    /\ tpc = "done"
    /\ tout.kind = "ok"
    /\ IF tout.body.code = NONE
       THEN /\ ret' = Raise("KeyError")
            /\ calls' = Answered
            /\ op' = "idle"
            /\ epc' = "none"
            /\ EndRequest
            /\ UNCHANGED sleeps
       ELSE IF PollingDone(tout.body)
       THEN /\ StartRequest("GET", <<"v1", "tasks", Str(task_id), "result">>, PyNone)
            /\ calls' = Append(Answered,
                    Issued("GET", <<"v1", "tasks", Str(task_id), "result">>))
            /\ epc' = "result"
            /\ UNCHANGED <<op, ret, sleeps>>
       ELSE /\ calls' = Answered
            /\ sleeps' = Append(sleeps, Sleep(SleepSeconds))
            /\ epc' = "sleep"
            /\ EndRequest
            /\ UNCHANGED <<op, ret>>
    /\ UNCHANGED <<clientVars, threads, conn, margs, task_id, result, srvVars>>

\* time.sleep(1) is over: the loop polls again.
export_zone_sleep ==
    /\ op = "export_zone"
    /\ epc = "sleep"
    /\ NumPolls(calls) < MaxPolls
    /\ StartRequest("GET", <<"v1", "tasks", Str(task_id)>>, PyNone)
    /\ calls' = Append(calls, Issued("GET", <<"v1", "tasks", Str(task_id)>>))
    /\ epc' = "poll"
    /\ UNCHANGED <<clientVars, threads, conn, op, margs, sleeps, task_id, result, ret,
                   srvVars>>

\* clear_task(task_id): DELETE /v1/tasks/{task_id}.
clear_task(id) ==
    /\ StartRequest("DELETE", <<"v1", "tasks", Str(id)>>, PyNone)
    /\ calls' = Append(Answered, Issued("DELETE", <<"v1", "tasks", Str(id)>>))

\* result = get(.../result) has come back: self.clear_task(task_id).
export_zone_after_result ==
    /\ op = "export_zone"
    /\ epc = "result"
    /\ tpc = "done"
    /\ tout.kind = "ok"
    /\ result' = tout.body
    /\ clear_task(task_id)
    /\ epc' = "clear"
    /\ UNCHANGED <<clientVars, threads, conn, op, margs, sleeps, task_id, ret, srvVars>>

\* A variant that hands back what clear_task returned.
export_zone_value_OfClear == tout.body

\* The value of `return result`.
export_zone_value == result

\* return result.
export_zone_return ==
    /\ op = "export_zone"
    /\ epc = "clear"
    /\ tpc = "done"
    /\ tout.kind = "ok"
    /\ ret' = Return(export_zone_value)
    /\ calls' = Answered
    /\ op' = "idle"
    /\ epc' = "none"
    /\ EndRequest
    /\ UNCHANGED <<clientVars, threads, conn, margs, sleeps, task_id, result, srvVars>>

\* ------------------------------------------- RestApiClient: one-call methods
\* Arguments the model calls the methods with.
Accounts == {"acct", "team"}
RTypes == {"A"}
OwnerNames == {"www"}
Ttls == {300}
\* rdata: one record as a str, or a list of records.
Rdatas ==
    {PyStr("1.1.1.1"), PyList(<<>>), PyList(<<PyStr("1.1.1.1")>>),
     PyList(<<PyStr("1.1.1.1"), PyStr("2.2.2.2")>>)}
\* profile: None (the default), an empty dict or a pool profile.
Profiles ==
    {PyNone, PyDict(<<>>),
     PyDict(<< <<"@context", PyStr("http://schemas.ultradns.com/RDPool.jsonschema")>> >>)}
\* q: None (the default), an empty dict or search parameters.
Queries ==
    {PyNone, PyDict(<<>>), PyDict(<< <<"name", PyStr("foo")>> >>),
     PyDict(<< <<"zone_type", PyStr("PRIMARY")>>, <<"name", PyStr("foo")>> >>)}
\* **kwargs: the paging and sorting arguments.
Kwargs ==
    {PyDict(<<>>),
     PyDict(<< <<"sort", PyStr("NAME")>>, <<"offset", PyInt(0)>>, <<"limit", PyInt(10)>> >>)}

\* A variant that builds on the caller's mapping itself.
build_params_NoCopy(q, kwargs) ==
    LET params == kwargs
        out == IF PyTruthy(q)
               THEN SetItem(params, "q", PyStr(join(" ",
                        [i \in 1..Len(q.kids) |->
                            q.kids[i].k \o ":" \o Format(q.kids[i].v)])))
               ELSE params
    IN [ret |-> out, args |-> out]

\* build_params(q, args), called with args = kwargs: what it returns, and the
\* caller's mapping as the call leaves it (params = args.copy() is a new
\* dict, so the caller's is as it was).
build_params(q, kwargs) ==
    LET params == kwargs
    IN [ret |-> IF PyTruthy(q)
                THEN SetItem(params, "q", PyStr(join(" ",
                        [i \in 1..Len(q.kids) |->
                            q.kids[i].k \o ":" \o Format(q.kids[i].v)])))
                ELSE params,
        args |-> kwargs]

\* A variant that passes rdata on as it came.
NormalizeRdata_AsGiven(rdata) == rdata

\* if not isinstance(rdata, list): rdata = [rdata]
NormalizeRdata(rdata) == IF ~IsList(rdata) THEN PyList(<<rdata>>) ELSE rdata

\* f"/v1/zones/{zone_name}/rrsets/{rtype}/{owner_name}"
RRSetUri(zone_name, rtype, owner_name) ==
    <<"v1", "zones", Str(zone_name), "rrsets", Str(rtype), Str(owner_name)>>

\* A variant in which the method keeps the client's copy of the access token
\* up to date with the connection's.
CallTransport_CachesToken(a, verb, uri, payload) ==
    /\ Idle
    /\ StartRequest(verb, uri, payload)
    /\ op' = a.method
    /\ margs' = a
    /\ calls' = <<Issued(verb, uri)>>
    /\ ret' = NoRet
    /\ self_access_token' = conn.access_token
    /\ sleeps' = <<>>
    /\ UNCHANGED <<args, cstate, cexc, self_refresh_token, warned, init_calls,
                   conn_options, threads, conn, epc, task_id, result, srvVars>>

\* The one statement `return self.rest_api_connection.<verb>(uri, payload)`
\* of method a.method, up to the call: the request is handed to the transport.
\* (The payload is the body of a POST, PUT or PATCH and the params of a GET.)
CallTransport(a, verb, uri, payload) ==
    /\ Idle
    /\ StartRequest(verb, uri, payload)
    /\ op' = a.method
    /\ margs' = a
    /\ calls' = <<Issued(verb, uri)>>
    /\ ret' = NoRet
    /\ sleeps' = <<>>
    /\ UNCHANGED <<clientVars, threads, conn, epc, task_id, result, srvVars>>

\* A variant that files the zone under the wrong keys.
zone_data_Swapped(account_name, zone_name) ==
    PyDict(<< <<"properties",
                PyDict(<< <<"name", PyStr(account_name)>>,
                          <<"accountName", PyStr(zone_name)>>,
                          <<"type", PyStr("PRIMARY")>> >>)>>,
              <<"primaryCreateInfo",
                PyDict(<< <<"forceImport", PyTrue>>,
                          <<"createType", PyStr("NEW")>> >>)>> >>)

\* create_primary_zone: the dict zone_data.
zone_data(account_name, zone_name) ==
    PyDict(<< <<"properties",
                PyDict(<< <<"name", PyStr(zone_name)>>,
                          <<"accountName", PyStr(account_name)>>,
                          <<"type", PyStr("PRIMARY")>> >>)>>,
              <<"primaryCreateInfo",
                PyDict(<< <<"forceImport", PyTrue>>,
                          <<"createType", PyStr("NEW")>> >>)>> >>)

create_primary_zone(account_name, zone_name) ==
    CallTransport([method |-> "create_primary_zone",
                   account_name |-> account_name, zone_name |-> zone_name],
                  "POST", <<"v1", "zones">>,
                  PyStr(json_dumps(zone_data(account_name, zone_name))))

get_zones(q, kwargs) ==
    LET built == build_params(q, kwargs)
    IN CallTransport([method |-> "get_zones", q |-> q, kwargs |-> built.args],
                     "GET", <<"v1", "zones">>, built.ret)

create_rrset(zone_name, rtype, owner_name, ttl, rdata) ==
    LET rrset == PyDict(<< <<"ttl", PyInt(ttl)>>, <<"rdata", NormalizeRdata(rdata)>> >>)
    IN CallTransport([method |-> "create_rrset", zone_name |-> zone_name,
                      rtype |-> rtype, owner_name |-> owner_name, ttl |-> ttl,
                      rdata |-> rdata, profile |-> PyNone],
                     "POST", RRSetUri(zone_name, rtype, owner_name),
                     PyStr(json_dumps(rrset)))

edit_rrset(zone_name, rtype, owner_name, ttl, rdata, profile) ==
    LET rrset0 == PyDict(<< <<"ttl", PyInt(ttl)>>, <<"rdata", NormalizeRdata(rdata)>> >>)
        rrset == IF PyTruthy(profile) THEN SetItem(rrset0, "profile", profile)
                 ELSE rrset0
    IN CallTransport([method |-> "edit_rrset", zone_name |-> zone_name,
                      rtype |-> rtype, owner_name |-> owner_name, ttl |-> ttl,
                      rdata |-> rdata, profile |-> profile],
                     "PUT", RRSetUri(zone_name, rtype, owner_name),
                     PyStr(json_dumps(rrset)))

\* A variant that never switches to PUT.
EditRdataVerb_AlwaysPatch(profile) == "PATCH"

\* edit_rrset_rdata: method = "patch", or "put" when a profile is given.
EditRdataVerb(profile) == IF PyTruthy(profile) THEN "PUT" ELSE "PATCH"

edit_rrset_rdata(zone_name, rtype, owner_name, rdata, profile) ==
    LET rrset0 == PyDict(<< <<"rdata", NormalizeRdata(rdata)>> >>)
        rrset == IF PyTruthy(profile) THEN SetItem(rrset0, "profile", profile)
                 ELSE rrset0
    IN CallTransport([method |-> "edit_rrset_rdata", zone_name |-> zone_name,
                      rtype |-> rtype, owner_name |-> owner_name, ttl |-> 0,
                      rdata |-> rdata, profile |-> profile],
                     EditRdataVerb(profile), RRSetUri(zone_name, rtype, owner_name),
                     PyStr(json_dumps(rrset)))

delete_rrset(zone_name, rtype, owner_name) ==
    CallTransport([method |-> "delete_rrset", zone_name |-> zone_name,
                   rtype |-> rtype, owner_name |-> owner_name],
                  "DELETE", RRSetUri(zone_name, rtype, owner_name), PyNone)

\* master, tsig_key and key_value of the zone-transfer methods: the keyword
\* arguments default to None, and a str may be empty.
Masters == {"10.0.0.1"}
TsigKeys == {PyNone, PyStr(""), PyStr("key")}
KeyValues == {PyNone, PyStr(""), PyStr("secret")}

\* d.update(e) on dicts: e's items are assigned into d in e's order.
RECURSIVE Update(_, _)
Update(d, e) ==
    IF Len(e.kids) = 0 THEN d
    ELSE Update(SetItem(d, e.kids[1].k, e.kids[1].v),
                [e EXCEPT !.kids = Tail(e.kids)])

\* A variant that adds the key members whenever a tsig_key is given.
name_server_info_KeyAlone(master, tsig_key, key_value) ==
    LET info == PyDict(<< <<"ip", PyStr(master)>> >>)
    IN IF PyTruthy(tsig_key)
       THEN Update(info, PyDict(<< <<"tsigKey", tsig_key>>,
                                   <<"tsigKeyValue", key_value>> >>))
       ELSE info

\* create_primary_zone_by_axfr and create_secondary_zone: the dict
\* name_server_info, after `if tsig_key and key_value:`.
name_server_info(master, tsig_key, key_value) ==
    LET info == PyDict(<< <<"ip", PyStr(master)>> >>)
    IN IF PyTruthy(tsig_key) /\ PyTruthy(key_value)
       THEN Update(info, PyDict(<< <<"tsigKey", tsig_key>>,
                                   <<"tsigKeyValue", key_value>> >>))
       ELSE info

create_primary_zone_by_axfr(account_name, zone_name, master, tsig_key, key_value) ==
    LET zone_properties ==
            PyDict(<< <<"name", PyStr(zone_name)>>,
                      <<"accountName", PyStr(account_name)>>,
                      <<"type", PyStr("PRIMARY")>> >>)
        primary_zone_info ==
            PyDict(<< <<"forceImport", PyTrue>>,
                      <<"createType", PyStr("TRANSFER")>>,
                      <<"nameServer", name_server_info(master, tsig_key, key_value)>> >>)
        data == PyDict(<< <<"properties", zone_properties>>,
                          <<"primaryCreateInfo", primary_zone_info>> >>)
    IN CallTransport([method |-> "create_primary_zone_by_axfr",
                      account_name |-> account_name, zone_name |-> zone_name,
                      master |-> master, tsig_key |-> tsig_key,
                      key_value |-> key_value],
                     "POST", <<"v1", "zones">>, PyStr(json_dumps(data)))

create_secondary_zone(account_name, zone_name, master, tsig_key, key_value) ==
    LET zone_properties ==
            PyDict(<< <<"name", PyStr(zone_name)>>,
                      <<"accountName", PyStr(account_name)>>,
                      <<"type", PyStr("SECONDARY")>> >>)
        name_server_ip_list ==
            PyDict(<< <<"nameServerIpList",
                        PyDict(<< <<"nameServerIp1",
                                    name_server_info(master, tsig_key, key_value)>> >>)>> >>)
        secondary_zone_info ==
            PyDict(<< <<"primaryNameServers", name_server_ip_list>> >>)
        data == PyDict(<< <<"properties", zone_properties>>,
                          <<"secondaryCreateInfo", secondary_zone_info>> >>)
    IN CallTransport([method |-> "create_secondary_zone",
                      account_name |-> account_name, zone_name |-> zone_name,
                      master |-> master, tsig_key |-> tsig_key,
                      key_value |-> key_value],
                     "POST", <<"v1", "zones">>, PyStr(json_dumps(data)))

\* primary, backup and second_backup of edit_secondary_name_server: each
\* defaults to None; a str, even an empty one, is not None.
NameServerArgs ==
    {<<p, b, s>> : p \in {PyNone, PyStr("10.0.0.1")},
                   b \in {PyNone, PyStr(""), PyStr("10.0.0.2")},
                   s \in {PyNone, PyStr("10.0.0.3")}}

\* A variant that numbers the supplied servers 1, 2, ... in their order.
RECURSIVE name_server_ip_list_Renumbered(_, _)
name_server_ip_list_Renumbered(ips, i) ==
    IF i > Len(ips) THEN PyDict(<<>>)
    ELSE LET rest == name_server_ip_list_Renumbered(ips, i + 1)
             n == Cardinality({j \in 1..i : ips[j] # PyNone})
         IN IF ips[i] # PyNone
            THEN [rest EXCEPT !.kids =
                    <<[k |-> "nameServerIp" \o ToString(n),
                       v |-> PyDict(<< <<"ip", ips[i]>> >>)]>> \o @]
            ELSE rest

\* edit_secondary_name_server: the dict comprehension
\* {f'nameServerIp{i+1}': {'ip': ip} for i, ip in enumerate(ips) if ip is not None},
\* from position i (counted from 1) of ips on.
RECURSIVE name_server_ip_list(_, _)
name_server_ip_list(ips, i) ==
    IF i > Len(ips) THEN PyDict(<<>>)
    ELSE LET rest == name_server_ip_list(ips, i + 1)
         IN IF ips[i] # PyNone
            THEN [rest EXCEPT !.kids =
                    <<[k |-> "nameServerIp" \o ToString(i),
                       v |-> PyDict(<< <<"ip", ips[i]>> >>)]>> \o @]
            ELSE rest

edit_secondary_name_server(zone_name, primary, backup, second_backup) ==
    LET info == name_server_ip_list(<<primary, backup, second_backup>>, 1)
        data == PyDict(<< <<"secondaryCreateInfo",
                    PyDict(<< <<"primaryNameServers",
                        PyDict(<< <<"nameServerIpList", info>> >>)>> >>)>> >>)
    IN CallTransport([method |-> "edit_secondary_name_server",
                      zone_name |-> zone_name, primary |-> primary,
                      backup |-> backup, second_backup |-> second_backup],
                     "PATCH", <<"v1", "zones", Str(zone_name)>>,
                     PyStr(json_dumps(data)))

\* Arguments of create_zone_query_volume_report: the dates, the optional
\* mapping zoneQueryVolume (None when omitted; one of the mappings already
\* holds dates) and the optional sortFields.
Dates == {"2026-01-01", "2026-02-01"}
ZoneQueryVolumes ==
    {PyNone, PyDict(<<>>), PyDict(<< <<"zoneName", PyStr("z.com")>> >>),
     PyDict(<< <<"endDate", PyStr("2025-12-31")>>, <<"zoneName", PyStr("z.com")>>,
               <<"startDate", PyStr("2025-12-01")>> >>)}
SortFieldsArgs == {PyNone, PyDict(<<>>), PyDict(<< <<"rspTotal", PyStr("DESC")>> >>)}

\* A variant that writes the dates into a copy of the caller's mapping.
zone_query_volume_Copied(startDate, endDate, zoneQueryVolume) ==
    LET zqv0 == IF zoneQueryVolume = PyNone THEN PyDict(<<>>) ELSE zoneQueryVolume
        zqv == SetItem(SetItem(zqv0, "startDate", PyStr(startDate)),
                       "endDate", PyStr(endDate))
    IN [local |-> zqv, caller |-> zoneQueryVolume]

\* create_zone_query_volume_report, lines 1114-1118: the local zoneQueryVolume
\* after the two assignments, and the object the caller passed as the call
\* leaves it.  A mapping that was passed is the same object as the local, so
\* the assignments are made in it; for None the local is a new dict and the
\* caller holds nothing.
zone_query_volume(startDate, endDate, zoneQueryVolume) ==
    LET zqv0 == IF zoneQueryVolume = PyNone THEN PyDict(<<>>) ELSE zoneQueryVolume
        zqv == SetItem(SetItem(zqv0, "startDate", PyStr(startDate)),
                       "endDate", PyStr(endDate))
    IN [local |-> zqv,
        caller |-> IF zoneQueryVolume = PyNone THEN PyNone ELSE zqv]

\* create_zone_query_volume_report.  Of the caller's mapping two values are
\* kept: `passed`, what it held when the call was made, and
\* `zoneQueryVolume`, what it holds afterwards.
create_zone_query_volume_report(startDate, endDate, zoneQueryVolume, sortFields, offset, limit) ==
    LET z == zone_query_volume(startDate, endDate, zoneQueryVolume)
        payload0 == PyDict(<< <<"zoneQueryVolume", z.local>> >>)
        payload == IF PyTruthy(sortFields)
                   THEN SetItem(payload0, "sortFields", sortFields)
                   ELSE SetItem(payload0, "sortFields",
                            PyDict(<< <<"zoneName", PyStr("ASC")>>,
                                      <<"endDate", PyStr("ASC")>> >>))
    IN CallTransport([method |-> "create_zone_query_volume_report",
                      startDate |-> startDate, endDate |-> endDate,
                      passed |-> zoneQueryVolume,
                      zoneQueryVolume |-> z.caller,
                      sortFields |-> sortFields],
                     "POST",
                     <<"v1", "reports", "dns_resolution", "query_volume",
                       "zone?offset=" \o ToString(offset) \o "&limit="
                            \o ToString(limit)>>,
                     PyStr(json_dumps(payload)))

\* The methods above, each one statement around one transport call.
OneCallMethods ==
    {"create_primary_zone", "get_zones", "create_rrset", "edit_rrset",
     "edit_rrset_rdata", "delete_rrset", "create_primary_zone_by_axfr",
     "create_secondary_zone", "edit_secondary_name_server",
     "create_zone_query_volume_report"}

\* The transport call of such a method has come back: the method returns.
method_return ==
    /\ op \in OneCallMethods
    /\ tpc = "done"
    /\ ret' = ReturnedValue(tout)
    /\ calls' = Answered
    /\ op' = "idle"
    /\ EndRequest
    /\ UNCHANGED <<clientVars, threads, conn, margs, epc, sleeps, task_id, result,
                   srvVars>>

\* ------------------------------------------------------------ specification
Init ==
    /\ args = [bu |-> NONE, pr |-> NONE, use_token |-> FALSE, kw |-> DefaultOptions]
    /\ cstate = "none"
    /\ cexc = NONE
    /\ self_access_token = UNSET
    /\ self_refresh_token = UNSET
    /\ warned = FALSE
    /\ init_calls = <<>>
    /\ conn_options = DefaultOptions
    /\ conn = NoConn
    /\ tpc = "idle"
    /\ treq = [verb |-> NONE, path |-> <<>>, body |-> PyNone]
    /\ tout = NoOut
    /\ http = <<>>
    /\ conn0 = NoConn
    /\ threads = [t \in Threads |-> NoThread]
    /\ op = "idle"
    /\ margs = [method |-> NONE]
    /\ epc = "none"
    /\ calls = <<>>
    /\ sleeps = <<>>
    /\ task_id = NONE
    /\ result = NoBody
    /\ ret = NoRet
    /\ srvAccess = {Tok(1)}
    /\ srvRefresh = {Tok(2)}
    /\ nextTok = 3

Next ==
    \/ \E use_token \in BOOLEAN :
         \E bu \in BuArgs(use_token), pr \in PrArgs(use_token) :
            RestApiClient_init(bu, pr, use_token, DefaultOptions)
    \/ \E p \in {Password, "bad"} : reauthenticate(Username, p)
    \/ \E z \in Zones : get_zone_metadata(z)
    \/ get_zone_metadata_return
    \/ \E z \in Zones : export_zone(z)
    \/ export_zone_raise
    \/ export_zone_after_post
    \/ export_zone_after_poll
    \/ export_zone_sleep
    \/ export_zone_after_result
    \/ export_zone_return
    \/ request_send
    \/ request_refresh
    \/ request_retry
    \/ ExpireAccess
    \/ ExpireRefresh

Spec == Init /\ [][Next]_vars

\* The facade's one-call methods on clients constructed in every way: with
\* any of the credentials (an empty bearer token among them) and either set
\* of options.
FacadeBuArgs(use_token) == IF use_token THEN {"", Tok(1)} ELSE {Username}
FacadePrArgs(use_token) == IF use_token THEN {NONE, Tok(2)} ELSE {Password, "bad"}

NextFacade ==
    \/ \E use_token \in BOOLEAN, kw \in {DefaultOptions, CustomOptions} :
         \E bu \in FacadeBuArgs(use_token), pr \in FacadePrArgs(use_token) :
            RestApiClient_init(bu, pr, use_token, kw)
    \/ \E a \in Accounts, z \in Zones : create_primary_zone(a, z)
    \/ \E q \in Queries, kwargs \in Kwargs : get_zones(q, kwargs)
    \/ \E z \in Zones, t \in RTypes, o \in OwnerNames, ttl \in Ttls, rdata \in Rdatas :
         create_rrset(z, t, o, ttl, rdata)
    \/ \E z \in Zones, t \in RTypes, o \in OwnerNames, ttl \in Ttls, rdata \in Rdatas,
            profile \in Profiles :
         edit_rrset(z, t, o, ttl, rdata, profile)
    \/ \E z \in Zones, t \in RTypes, o \in OwnerNames, rdata \in Rdatas,
            profile \in Profiles :
         edit_rrset_rdata(z, t, o, rdata, profile)
    \/ \E z \in Zones, t \in RTypes, o \in OwnerNames : delete_rrset(z, t, o)
    \/ method_return
    \/ request_send
    \/ request_refresh
    \/ request_retry
    \/ ExpireAccess
    \/ ExpireRefresh

SpecFacade == Init /\ [][NextFacade]_vars

\* Two concurrent requests on the connection of a client constructed with a
\* bearer token, with or without a refresh token.
NextConcurrent ==
    \/ \E pr \in {NONE, Tok(2)} : RestApiClient_init(Tok(1), pr, TRUE, DefaultOptions)
    \/ \E t \in Threads : thread_send(t)
    \/ \E t \in Threads : thread_refresh(t)
    \/ \E t \in Threads : thread_store_access(t)
    \/ \E t \in Threads : thread_store_refresh(t)
    \/ \E t \in Threads : thread_retry(t)
    \/ ExpireAccess
    \/ ExpireRefresh

SpecConcurrent == Init /\ [][NextConcurrent]_vars

\* The zone-transfer, name-server and report methods, and get_zones, of a
\* client constructed with a bearer token, with or without a refresh token.
NextZoneMethods ==
    \/ \E pr \in {NONE, Tok(2)} : RestApiClient_init(Tok(1), pr, TRUE, DefaultOptions)
    \/ \E a \in Accounts, z \in Zones, m \in Masters, k \in TsigKeys, v \in KeyValues :
         create_primary_zone_by_axfr(a, z, m, k, v)
    \/ \E a \in Accounts, z \in Zones, m \in Masters, k \in TsigKeys, v \in KeyValues :
         create_secondary_zone(a, z, m, k, v)
    \/ \E z \in Zones, ips \in NameServerArgs :
         edit_secondary_name_server(z, ips[1], ips[2], ips[3])
    \/ \E s \in Dates, e \in Dates, zqv \in ZoneQueryVolumes, sf \in SortFieldsArgs :
         create_zone_query_volume_report(s, e, zqv, sf, 0, 1000)
    \/ \E q \in Queries, kwargs \in Kwargs : get_zones(q, kwargs)
    \/ method_return
    \/ request_send
    \/ request_refresh
    \/ request_retry
    \/ ExpireAccess
    \/ ExpireRefresh

SpecZoneMethods == Init /\ [][NextZoneMethods]_vars

\* ------------------------------------------------------------------ claims

\* C1: constructing a client with use_token = False and no password (None or
\* empty) raises ValueError before any network call: no RestApiConnection is
\* created and auth() is never invoked.
C1_NoPasswordRaisesBeforeNetwork ==
    (cstate # "none" /\ ~args.use_token /\ ~Truthy(args.pr)) =>
        /\ cstate = "raised"
        /\ cexc = "ValueError"
        /\ ~conn.exists
        /\ http = <<>>
        /\ tout = NoOut
        /\ srvRefresh \subseteq {Tok(2)} /\ srvAccess \subseteq {Tok(1)}

C1_Witness ==
    /\ cstate = "raised"
    /\ cexc = "ValueError"
    /\ ~args.use_token
    /\ args.pr = ""

\* What the HTTP log of the transport call in progress says about it.
\* The first attempt was answered 401: the stored access token had expired.
FirstAttempt401 ==
    Len(http) >= 1 /\ http[1].kind = "api" /\ http[1].status = 401
\* The first attempt was answered otherwise: the stored token was valid.
FirstAttemptValid ==
    Len(http) >= 1 /\ http[1].kind = "api" /\ http[1].status # 401
\* A refresh call was made and answered (with st).
RefreshAnswered(st) ==
    Len(http) >= 2 /\ http[2].kind = "refresh" /\ http[2].status = st
RefreshDidFail == RefreshAnswered(401) \/ RefreshAnswered(500)
Kinds == [i \in 1..Len(http) |-> http[i].kind]

\* C2, as stated: a request whose first attempt is answered 401 while a
\* refresh token is stored makes exactly two HTTP calls (the refresh and the
\* retried original), and the stored access token has changed afterwards.
C2_Original ==
    (tpc = "done" /\ FirstAttempt401 /\ Truthy(conn0.refresh_token)) =>
        /\ Len(http) = 2
        /\ conn.access_token # conn0.access_token

\* C2, amended: a request whose first attempt is answered 401 while a refresh
\* token is stored, and whose refresh succeeds, makes exactly three HTTP
\* calls: the first attempt, the refresh, and the original request retried
\* exactly once with the new token; the stored access token has changed
\* afterwards.
C2_RefreshThenRetryOnce ==
    (tpc = "done" /\ FirstAttempt401 /\ Truthy(conn0.refresh_token)
            /\ RefreshAnswered(200)) =>
        /\ Kinds = <<"api", "refresh", "api">>
        /\ http[2].token = conn0.refresh_token
        /\ http[3].verb = http[1].verb /\ http[3].path = http[1].path
        /\ http[1].token = conn0.access_token
        /\ http[3].token = conn.access_token
        /\ conn.access_token # conn0.access_token
        /\ conn.refresh_token = conn0.refresh_token

C2_Witness ==
    /\ tpc = "done"
    /\ FirstAttempt401
    /\ RefreshAnswered(200)
    /\ Len(http) = 3
    /\ tout.kind = "ok"

\* C3: if the refresh call itself fails, the request ends with AuthError and
\* makes no further HTTP call: the original request is not retried and no
\* second refresh is attempted.
C3_FailedRefreshEndsRequest ==
    RefreshDidFail =>
        /\ tpc = "done"
        /\ tout = AuthError(401)
        /\ Kinds = <<"api", "refresh">>

C3_Witness ==
    /\ tpc = "done"
    /\ RefreshAnswered(500)
    /\ tout.kind = "AuthError"

\* C4: a request issued while the stored access token is valid makes exactly
\* one HTTP call, with no refresh and no retry, and leaves the stored
\* credentials as they were.
C4_ValidTokenOneCall ==
    FirstAttemptValid =>
        /\ tpc = "done"
        /\ Len(http) = 1
        /\ http[1].token = conn0.access_token
        /\ conn = conn0

C4_Witness ==
    /\ tpc = "done"
    /\ FirstAttemptValid
    /\ tout.kind = "ApiError"
    /\ Truthy(conn.refresh_token)

\* C5: a 401 when no refresh token is stored (a client built from a bearer
\* token alone) is surfaced as AuthError with no refresh call and no retry:
\* exactly one HTTP call was made.
C5_NoRefreshTokenSurfaces401 ==
    (FirstAttempt401 /\ ~Truthy(conn0.refresh_token)) =>
        /\ tpc = "done"
        /\ tout = AuthError(401)
        /\ Len(http) = 1
        /\ conn = conn0

C5_Witness ==
    /\ tpc = "done"
    /\ FirstAttempt401
    /\ args.use_token
    /\ conn0.refresh_token = NONE
    /\ tout.kind = "AuthError"

\* C6, as stated: any non-2xx answer to the request other than the 401 that
\* triggers a refresh (a first attempt's 401 while a refresh token is stored)
\* is surfaced as ApiError carrying the status, with no refresh and no retry
\* after it and the stored credentials unchanged.
C6_Original ==
    \A i \in 1..Len(http) :
        (http[i].kind = "api" /\ http[i].status # 200
                /\ ~(i = 1 /\ http[i].status = 401
                        /\ Truthy(conn0.refresh_token))) =>
            /\ tpc = "done"
            /\ i = Len(http)
            /\ tout = ApiError(http[i].status)
            /\ conn.access_token = http[i].token
            /\ conn.refresh_token = conn0.refresh_token

\* C6, amended: any non-2xx answer to the request other than a 401 to its
\* first attempt is surfaced as ApiError carrying the status, with no refresh
\* and no retry after it and the stored credentials left as they were when it
\* arrived; this includes any non-2xx, a second 401 too, that answers the
\* retried request after a successful refresh.  (A first attempt's 401 that
\* triggers no refresh, for want of a refresh token, is an AuthError: C5.)
C6_OtherErrorsSurfaceAsApiError ==
    \A i \in 1..Len(http) :
        (http[i].kind = "api" /\ http[i].status # 200
                /\ ~(i = 1 /\ http[i].status = 401)) =>
            /\ tpc = "done"
            /\ i = Len(http)
            /\ tout = ApiError(http[i].status)
            /\ conn.access_token = http[i].token
            /\ conn.refresh_token = conn0.refresh_token
            /\ i = 1 => conn = conn0
            /\ i > 1 => (i = 3 /\ RefreshAnswered(200)
                            /\ conn = StoreRefreshed(conn0, http[i].token))

C6_Witness ==
    /\ tpc = "done"
    /\ Len(http) = 3
    /\ http[3].kind = "api"
    /\ http[3].status = 401
    /\ tout = ApiError(401)

\* C7: the credential state Failed, entered when the refresh call itself is
\* answered 401, is terminal for the client: no request returns it to
\* Authenticated (only a new authentication from scratch does), and every
\* later request ends with AuthError.
C7_FailedIsTerminal ==
    [][/\ (tpc' = "done" /\ RefreshAnswered(401)') => conn'.state = "Failed"
       /\ (conn.state = "Failed" /\ conn'.state # "Failed") =>
            /\ tpc = "idle" /\ tpc' = "idle"
            /\ Kinds' = <<"auth">>
            /\ http'[1].status = 200
       /\ (conn'.state = "Failed" /\ tpc' = "done") =>
            tout'.kind = "AuthError"]_vars

C7_Witness ==
    /\ tpc = "done"
    /\ conn0.state = "Failed"
    /\ conn.state = "Failed"
    /\ tout.kind = "AuthError"

\* What the log of transport calls says about an export_zone.
IsExportLog == Len(calls) >= 1 /\ calls[1].verb = "POST"
ExportReturned == IsExportLog /\ op = "idle" /\ ret.kind = "return"
\* The task id every call after the POST is to use.
PostedId == Str(calls[1].res.body.task_id)
IsPollOf(c, id) == c.verb = "GET" /\ c.path = <<"v1", "tasks", id>>
IsResultOf(c, id) == c.verb = "GET" /\ c.path = <<"v1", "tasks", id, "result">>
IsClearOf(c, id) == c.verb = "DELETE" /\ c.path = <<"v1", "tasks", id>>
AnsweredCode(c) == IF c.res.kind = "ok" THEN c.res.body.code ELSE NONE

\* C8: export_zone issues one POST /v3/zones/export, then GET /v1/tasks/{id}
\* again and again until the code it is answered is not IN_PROCESS, then
\* exactly one GET /v1/tasks/{id}/result, then exactly one DELETE
\* /v1/tasks/{id}; it returns the body of the result GET, not the DELETE's
\* answer; every call after the POST uses the task_id of the POST's answer.
C8_ExportZoneCallOrder ==
    IsExportLog =>
        /\ calls[1].path = <<"v3", "zones", "export">>
        /\ \A i \in 2..Len(calls) :
            /\ calls[1].res.kind = "ok"
            /\ \/ /\ IsPollOf(calls[i], PostedId)
                  /\ \A j \in 2..(i - 1) :
                        /\ IsPollOf(calls[j], PostedId)
                        /\ AnsweredCode(calls[j]) = "IN_PROCESS"
               \/ /\ IsResultOf(calls[i], PostedId)
                  /\ i >= 3
                  /\ IsPollOf(calls[i - 1], PostedId)
                  /\ AnsweredCode(calls[i - 1]) \notin {"IN_PROCESS", NONE}
               \/ /\ IsClearOf(calls[i], PostedId)
                  /\ i = Len(calls)
                  /\ IsResultOf(calls[i - 1], PostedId)
                  /\ calls[i - 1].res.kind = "ok"
        /\ ExportReturned =>
            /\ Len(calls) >= 4
            /\ IsClearOf(calls[Len(calls)], PostedId)
            /\ calls[Len(calls)].res.kind = "ok"
            /\ ret.body = calls[Len(calls) - 1].res.body

C8_Witness ==
    /\ ExportReturned
    /\ Len(calls) = 5
    /\ calls[1].res.body.task_id = "T2"
    /\ AnsweredCode(calls[2]) = "IN_PROCESS"
    /\ AnsweredCode(calls[3]) = "COMPLETE"
    /\ ret.body.data = "zonefile2"

\* C9: export_zone has no bound on its polls: as long as every poll is
\* answered IN_PROCESS (and no call fails) it is still in its loop, however
\* many polls it has made, and has neither returned nor issued the result
\* GET or the DELETE; it gets past the loop only once a poll is answered
\* something else.
C9_ExportZoneUnboundedPolling ==
    IsExportLog =>
        /\ (/\ \A i \in 1..Len(calls) : calls[i].res.kind \in {"ok", "none"}
            /\ \A i \in 2..Len(calls) :
                    IsPoll(calls[i]) /\ calls[i].res.kind = "ok" =>
                        calls[i].res.body.code = "IN_PROCESS") =>
                /\ op = "export_zone"
                /\ epc \in {"post", "poll", "sleep"}
                /\ ret.kind = "none"
                /\ \A i \in 2..Len(calls) : IsPoll(calls[i])
        /\ (op = "export_zone" /\ epc \in {"result", "clear"}) \/ ExportReturned =>
                \E i \in 2..Len(calls) :
                    /\ IsPoll(calls[i])
                    /\ AnsweredCode(calls[i]) \notin {"IN_PROCESS", NONE}

C9_Witness ==
    /\ op = "export_zone"
    /\ epc = "sleep"
    /\ NumPolls(calls) = MaxPolls
    /\ \A i \in 2..Len(calls) : AnsweredCode(calls[i]) = "IN_PROCESS"

\* C10: constructing a client with use_token = True and no refresh token
\* succeeds: it warns, raises nothing, stores the bearer token as the active
\* credential and makes no authentication call while constructing.
C10_TokenWithoutRefreshConstructs ==
    [][(cstate = "none" /\ cstate' # "none"
            /\ args'.use_token /\ ~Truthy(args'.pr)) =>
        /\ cstate' = "ready"
        /\ cexc' = NONE
        /\ warned'
        /\ self_access_token' = args'.bu
        /\ conn'.exists
        /\ conn'.access_token = args'.bu
        /\ conn'.state = "Authenticated"
        /\ http' = <<>>
        /\ UNCHANGED srvVars]_vars

C10_Witness ==
    /\ cstate = "ready"
    /\ args.use_token
    /\ args.pr = NONE
    /\ warned
    /\ conn.access_token = args.bu
    /\ conn.refresh_token = NONE


\* C11: the constructor raises ValueError if pr is not provided (it is None)
\* when use_token is True, as the constructor's docstring announces.
C11_TokenWithoutRefreshRaises ==
    (cstate # "none" /\ args.use_token /\ args.pr = NONE) =>
        (cstate = "raised" /\ cexc = "ValueError")


\* C12: constructing a client with use_token = False and a non-empty password
\* creates the transport and then calls auth(username, password) exactly
\* once, in that order; if auth fails on invalid credentials the failure
\* propagates out of the constructor and no usable client is returned (no
\* method ever runs on it).
C12_PasswordInitCreatesThenAuthenticatesOnce ==
    [][ /\ (cstate = "none" /\ cstate' # "none"
                /\ ~args'.use_token /\ Truthy(args'.pr)) =>
            /\ init_calls' = <<ConnectionCall(NotPassed, NotPassed),
                               AuthCall(args'.bu, args'.pr)>>
            /\ conn'.exists
            /\ Len(http') = 1 /\ http'[1].kind = "auth"
            /\ (tout'.kind = "ok") = (args'.bu = Username /\ args'.pr = Password)
            /\ (tout'.kind = "ok" => cstate' = "ready" /\ cexc' = NONE)
            /\ (tout'.kind # "ok" => cstate' = "raised" /\ cexc' = "AuthError")
        /\ (cstate = "raised" =>
                cstate' = "raised" /\ op' = "idle" /\ tpc' = "idle"
                    /\ init_calls' = init_calls)
      ]_vars

C12_Witness ==
    /\ cstate = "raised"
    /\ cexc = "AuthError"
    /\ ~args.use_token
    /\ args.pr = "bad"
    /\ Len(init_calls) = 2
    /\ init_calls[2] = AuthCall(Username, "bad")


\* C13: every domain method other than export_zone makes exactly one
\* Transport call per invocation and returns that call's result unchanged;
\* none of them retries, loops or issues a second call, whatever the
\* Transport returns or raises.
C13_OneCallResultUnchanged ==
    [][ /\ (op' \in OneCallMethods /\ op' # op) =>
                /\ op = "idle" /\ tpc = "idle" /\ tpc' = "send"
                /\ Len(calls') = 1
                /\ calls'[1].verb = treq'.verb /\ calls'[1].path = treq'.path
        /\ (op \in OneCallMethods /\ op' = op) =>
                /\ treq' = treq
                /\ calls' = calls
                /\ tpc' # "idle"
        /\ (op \in OneCallMethods /\ op' # op) =>
                /\ op' = "idle"
                /\ tpc = "done" /\ tpc' = "idle"
                /\ calls' = <<[calls[1] EXCEPT !.res = tout]>>
                /\ tout.kind \in {"ok", "AuthError", "ApiError"}
                /\ (tout.kind = "ok" => ret' = Return(tout.body))
                /\ (tout.kind # "ok" => ret' = Raise(tout.kind))
      ]_vars

C13_Witness ==
    /\ op = "idle"
    /\ margs.method = "delete_rrset"
    /\ ret = Raise("ApiError")
    /\ Len(calls) = 1
    /\ calls[1].res = ApiError(500)


\* C14: for any account name A and zone name Z, create_primary_zone(A, Z)
\* issues a single POST to /v1/zones whose body is properties {name: Z,
\* accountName: A, type: PRIMARY} and primaryCreateInfo {forceImport: true,
\* createType: NEW}.
C14_CreatePrimaryZoneRequest ==
    op = "create_primary_zone" =>
        /\ Len(calls) = 1
        /\ calls[1].verb = "POST" /\ calls[1].path = <<"v1", "zones">>
        /\ treq.verb = "POST"
        /\ treq.path = <<"v1", "zones">>
        /\ treq.body = PyStr(
                "{\"properties\": {\"name\": \"" \o margs.zone_name
                    \o "\", \"accountName\": \"" \o margs.account_name
                    \o "\", \"type\": \"PRIMARY\"}, "
                \o "\"primaryCreateInfo\": {\"forceImport\": true, "
                    \o "\"createType\": \"NEW\"}}")

C14_Witness ==
    /\ op = "create_primary_zone"
    /\ tpc = "done"
    /\ margs.account_name = "team"
    /\ margs.zone_name = "z.com"
    /\ treq.body.s = "{\"properties\": {\"name\": \"z.com\", \"accountName\": \"team\", \"type\": \"PRIMARY\"}, \"primaryCreateInfo\": {\"forceImport\": true, \"createType\": \"NEW\"}}"


\* The JSON text of a list holding the records of rdata: of rdata itself when
\* it is a list, of the one-element list around it otherwise.
RdataAsJsonList(rdata) ==
    "[" \o join(", ",
                IF rdata.t = "list"
                THEN [i \in 1..Len(rdata.kids) |-> "\"" \o rdata.kids[i].v.s \o "\""]
                ELSE <<"\"" \o rdata.s \o "\"">>)
        \o "]"
\* The profile member of the body, present when a profile was given.
ProfileMember(profile) ==
    IF profile.t = "dict" /\ Len(profile.kids) > 0
    THEN ", \"profile\": " \o json_dumps(profile)
    ELSE ""

\* C15: create_rrset(zone, rtype, owner, ttl, rdata) issues
\* POST /v1/zones/{zone}/rrsets/{rtype}/{owner} with body {ttl, rdata}, where
\* an rdata that is not a list is wrapped into a one-element list and an
\* rdata that is already a list is sent unchanged; edit_rrset and
\* edit_rrset_rdata apply the same normalisation, so the rdata field of the
\* body is always a list.
C15_RRSetBodyRdataIsList ==
    /\ op \in {"create_rrset", "edit_rrset", "edit_rrset_rdata"} =>
            /\ Len(calls) = 1
            /\ treq.path = <<"v1", "zones", margs.zone_name, "rrsets",
                             margs.rtype, margs.owner_name>>
    /\ op = "create_rrset" =>
            /\ treq.verb = "POST"
            /\ treq.body = PyStr("{\"ttl\": " \o ToString(margs.ttl)
                    \o ", \"rdata\": " \o RdataAsJsonList(margs.rdata) \o "}")
    /\ op = "edit_rrset" =>
            treq.body = PyStr("{\"ttl\": " \o ToString(margs.ttl)
                    \o ", \"rdata\": " \o RdataAsJsonList(margs.rdata)
                    \o ProfileMember(margs.profile) \o "}")
    /\ op = "edit_rrset_rdata" =>
            treq.body = PyStr("{\"rdata\": " \o RdataAsJsonList(margs.rdata)
                    \o ProfileMember(margs.profile) \o "}")

C15_Witness ==
    /\ op = "create_rrset"
    /\ tpc = "done"
    /\ margs.rdata = PyStr("1.1.1.1")
    /\ treq.verb = "POST"
    /\ treq.path = <<"v1", "zones", "z.com", "rrsets", "A", "www">>
    /\ treq.body.s = "{\"ttl\": 300, \"rdata\": [\"1.1.1.1\"]}"


\* C16: in every reachable state of a constructed client exactly one
\* credential representation is active, either username+password or access
\* token (with optional refresh token), never both and never neither, and a
\* refresh replaces the access token in place without switching
\* representation.  (The password is handed to auth() and stored nowhere, so
\* the one representation a constructed client can hold is the token pair: it
\* holds an access token, and a refresh changes that token only.)
C16_ExactlyOneRepresentation ==
    cstate = "ready" =>
        /\ Truthy(conn.access_token)
        /\ (args.use_token => Truthy(self_access_token))
        /\ (~args.use_token =>
                self_access_token = UNSET /\ self_refresh_token = UNSET)
        /\ (RefreshAnswered(200) =>
                /\ conn.refresh_token = conn0.refresh_token
                /\ conn.access_token # conn0.access_token)


\* C17: the configuration options use_http, host, custom_headers, proxy and
\* verify_https change only request construction, not control flow: in the
\* constructor they are forwarded unchanged to the connection in both
\* authentication modes, and from then on nothing changes them; what the
\* constructor does besides (which calls it makes, how it ends) and every
\* later step is the same whatever the options are.
C17_OptionsForwardedOnly ==
    [][ /\ (cstate = "none" /\ cstate' # "none") =>
                /\ (init_calls' # <<>> =>
                        /\ init_calls'[1].fn = "RestApiConnection"
                        /\ conn_options' = args'.kw)
                /\ (init_calls' = <<>> => ~conn'.exists)
                /\ Len(init_calls') =
                        (IF args'.use_token THEN 1
                         ELSE IF Truthy(args'.pr) THEN 2 ELSE 0)
                /\ (cstate' = "ready") =
                        (args'.use_token
                            \/ (args'.bu = Username /\ args'.pr = Password))
        /\ (cstate # "none" => conn_options' = conn_options /\ args' = args)
      ]_vars

C17_Witness ==
    /\ cstate = "ready"
    /\ ~args.use_token
    /\ args.kw = CustomOptions
    /\ conn_options = CustomOptions
    /\ op = "get_zones"
    /\ tpc = "done"
    /\ Len(http) = 3


\* The request a method sends for its arguments alone, as a client that has
\* made no call yet sends it.
RequestFor(a) ==
    CASE a.method = "create_primary_zone" ->
            [verb |-> "POST", path |-> <<"v1", "zones">>,
             body |-> PyStr(json_dumps(zone_data(a.account_name, a.zone_name)))]
      [] a.method = "get_zones" ->
            [verb |-> "GET", path |-> <<"v1", "zones">>,
             body |-> build_params(a.q, a.kwargs).ret]
      [] a.method = "create_rrset" ->
            [verb |-> "POST",
             path |-> RRSetUri(a.zone_name, a.rtype, a.owner_name),
             body |-> PyStr("{\"ttl\": " \o ToString(a.ttl) \o ", \"rdata\": "
                            \o RdataAsJsonList(a.rdata) \o "}")]
      [] a.method = "edit_rrset" ->
            [verb |-> "PUT",
             path |-> RRSetUri(a.zone_name, a.rtype, a.owner_name),
             body |-> PyStr("{\"ttl\": " \o ToString(a.ttl) \o ", \"rdata\": "
                            \o RdataAsJsonList(a.rdata)
                            \o ProfileMember(a.profile) \o "}")]
      [] a.method = "edit_rrset_rdata" ->
            [verb |-> IF PyTruthy(a.profile) THEN "PUT" ELSE "PATCH",
             path |-> RRSetUri(a.zone_name, a.rtype, a.owner_name),
             body |-> PyStr("{\"rdata\": " \o RdataAsJsonList(a.rdata)
                            \o ProfileMember(a.profile) \o "}")]
      [] a.method = "delete_rrset" ->
            [verb |-> "DELETE",
             path |-> RRSetUri(a.zone_name, a.rtype, a.owner_name),
             body |-> PyNone]

\* C18: the domain client is stateless after construction: no domain method
\* modifies any attribute of the RestApiClient instance (rest_api_connection,
\* access_token, refresh_token), so after any sequence of domain calls a
\* method called with the same arguments sends the same verb, path and body
\* as it would on a fresh client.
C18_FacadeStateless ==
    [][ /\ cstate = "ready" =>
                /\ cstate' = "ready"
                /\ self_access_token' = self_access_token
                /\ self_refresh_token' = self_refresh_token
                /\ conn'.exists
                /\ init_calls' = init_calls
        /\ (op = "idle" /\ op' # "idle") => treq' = RequestFor(margs')
      ]_vars

C18_Witness ==
    /\ op = "create_rrset"
    /\ tpc = "send"
    /\ args.use_token
    /\ self_access_token = Tok(1)
    /\ conn.access_token = Tok(4)
    /\ treq = RequestFor(margs)


\* The i-th pair of the mapping q as the text "key:value".
KeyValue(q, i) == q.kids[i].k \o ":" \o q.kids[i].v.s

\* C19: build_params(q, args) returns a mapping containing every key/value
\* of args (sort, reverse, offset, limit, ...) and, only when q is a
\* non-empty mapping, a key q whose value is the space-separated "key:value"
\* pairs of q in q's iteration order; when q is None or empty no q key is
\* added, and the args mapping passed in is not modified.
C19_BuildParams ==
    op = "get_zones" =>
        LET params == treq.body
            q == margs.q
            given == margs.kwargs
        IN /\ given \in Kwargs
           /\ \A i \in 1..Len(given.kids) : ~(given.kids[i].k = "q")
           /\ params.t = "dict"
           /\ \A i \in 1..Len(given.kids) : params.kids[i] = given.kids[i]
           /\ IF q.t = "dict" /\ Len(q.kids) > 0
              THEN /\ Len(params.kids) = Len(given.kids) + 1
                   /\ params.kids[Len(params.kids)].k = "q"
                   /\ params.kids[Len(params.kids)].v =
                        PyStr(IF Len(q.kids) = 1 THEN KeyValue(q, 1)
                              ELSE KeyValue(q, 1) \o " " \o KeyValue(q, 2))
              ELSE params = given

C19_Witness ==
    /\ op = "get_zones"
    /\ tpc = "done"
    /\ Len(margs.q.kids) = 2
    /\ Len(margs.kwargs.kids) = 3
    /\ Len(treq.body.kids) = 4
    /\ treq.body.kids[1] = [k |-> "sort", v |-> PyStr("NAME")]
    /\ treq.body.kids[4] = [k |-> "q", v |-> PyStr("zone_type:PRIMARY name:foo")]


\* ------------------------------------------------------------------- C20
\* The refresh responses so far, by number: response n carried the access
\* token Tok(n), and RefreshTok(n) if the provider rotated the refresh token.
RefreshResponses == 3 .. (nextTok - 1)

\* The stored access token and the stored refresh token were carried by two
\* different refresh responses.
MixedCredentials ==
    \E n, m \in RefreshResponses :
        /\ n # m
        /\ conn.access_token = Tok(n)
        /\ conn.refresh_token = RefreshTok(m)

\* Both requests received a 401 for the same bearer token, the one the
\* client was constructed with, and refreshed it.
BothRefreshedSameToken ==
    \A t \in Threads :
        threads[t].sent = self_access_token /\ threads[t].refreshes = 1

\* No caller is in the middle of a request.
Quiescent == \A t \in Threads : threads[t].pc \in {"idle", "done"}

\* C20 as stated: with two concurrent requests on one client, once the
\* requests are over the stored access token and refresh token never come
\* from different refresh responses, and each request performs at most one
\* refresh.
C20_Original ==
    /\ \A t \in Threads : threads[t].refreshes <= 1
    /\ (Quiescent /\ BothRefreshedSameToken) => ~MixedCredentials

\* C20: with two concurrent requests on one client, each request performs at
\* most one refresh, and each refreshed request stores its own response as two
\* separate writes: first the access token, leaving the stored refresh token
\* as it is, then the refresh token, leaving the stored access token as it is
\* (whichever caller stored that one).
C20_SingleUnsynchronisedRefresh ==
    /\ [](\A t \in Threads : threads[t].refreshes <= 1)
    /\ [][\A t \in Threads :
            /\ (threads[t].pc = "store_access" /\ threads'[t].pc = "store_refresh")
                  => /\ conn'.access_token = threads[t].access
                     /\ conn'.refresh_token = conn.refresh_token
            /\ (threads[t].pc = "store_refresh" /\ threads'[t].pc = "retry")
                  => /\ conn'.refresh_token = threads[t].refresh
                     /\ conn'.access_token = conn.access_token]_vars

\* Both requests got a 401 for the constructor's access token, both refreshed
\* once, both are over, and the stored access token and refresh token come
\* from different refresh responses.
C20_Witness ==
    /\ BothRefreshedSameToken
    /\ \A t \in Threads : threads[t].pc = "done" /\ threads[t].out.kind = "ok"
    /\ MixedCredentials


\* ------------------------------------------------------------------- C21
\* C21: edit_rrset_rdata selects the verb from the optional profile argument:
\* with no (or falsy) profile it sends PATCH with body {rdata}; with a truthy
\* profile it sends PUT with body {rdata, profile}; in both cases to
\* /v1/zones/{zone}/rrsets/{rtype}/{owner}, and never any other verb.
C21_EditRdataVerbFromProfile ==
    op = "edit_rrset_rdata" =>
        /\ Len(calls) = 1
        /\ calls[1].path = <<"v1", "zones", margs.zone_name, "rrsets",
                             margs.rtype, margs.owner_name>>
        /\ treq.path = calls[1].path
        /\ calls[1].verb \in {"PATCH", "PUT"}
        /\ margs.profile \in {PyNone, PyDict(<<>>)} =>
                /\ treq.verb = "PATCH" /\ calls[1].verb = "PATCH"
                /\ treq.body = PyStr("{\"rdata\": "
                                     \o RdataAsJsonList(margs.rdata) \o "}")
        /\ margs.profile \notin {PyNone, PyDict(<<>>)} =>
                /\ treq.verb = "PUT" /\ calls[1].verb = "PUT"
                /\ treq.body = PyStr("{\"rdata\": "
                        \o RdataAsJsonList(margs.rdata)
                        \o ", \"profile\": {\"@context\": "
                        \o "\"http://schemas.ultradns.com/RDPool.jsonschema\"}}")

\* edit_rrset_rdata was called with a pool profile and a single record, and
\* its request went out as a PUT and came back.
C21_Witness ==
    /\ op = "edit_rrset_rdata"
    /\ tpc = "done"
    /\ margs.profile.t = "dict" /\ Len(margs.profile.kids) = 1
    /\ margs.rdata = PyStr("1.1.1.1")
    /\ calls[1].verb = "PUT" /\ treq.verb = "PUT"
    /\ treq.body.s = "{\"rdata\": [\"1.1.1.1\"], \"profile\": {\"@context\": \"http://schemas.ultradns.com/RDPool.jsonschema\"}}"

\* edit_rrset_rdata was called without a profile, and its request went out as
\* a PATCH that carries the rdata alone.
C21_WitnessPatch ==
    /\ op = "edit_rrset_rdata"
    /\ tpc = "done"
    /\ margs.profile = PyNone
    /\ calls[1].verb = "PATCH" /\ treq.verb = "PATCH"
    /\ treq.body.s = "{\"rdata\": [\"1.1.1.1\"]}"


\* ------------------------------------------------------------------- C22
\* The JSON text of the name-server entry the claim describes: the master's
\* ip alone when either of tsig_key and key_value is missing (None or empty),
\* and with the two key members when both were given.
NameServerEntry(a) ==
    IF a.tsig_key.t = "str" /\ a.tsig_key.s # ""
       /\ a.key_value.t = "str" /\ a.key_value.s # ""
    THEN "{\"ip\": \"" \o a.master \o "\", \"tsigKey\": \"" \o a.tsig_key.s
            \o "\", \"tsigKeyValue\": \"" \o a.key_value.s \o "\"}"
    ELSE "{\"ip\": \"" \o a.master \o "\"}"

\* The properties member of the body of a zone of the given type.
ZoneProperties(a, type) ==
    "\"properties\": {\"name\": \"" \o a.zone_name \o "\", \"accountName\": \""
        \o a.account_name \o "\", \"type\": \"" \o type \o "\"}"

\* C22: in create_secondary_zone and create_primary_zone_by_axfr the
\* name-server entry carries tsigKey and tsigKeyValue only when both tsig_key
\* and key_value are supplied; when either is missing the entry is exactly
\* {ip: master} and the request is still sent, with no error raised for a
\* tsig_key given without key_value.
C22_TsigOnlyWithBoth ==
    /\ op \in {"create_secondary_zone", "create_primary_zone_by_axfr"} =>
            /\ Len(calls) = 1
            /\ calls[1].verb = "POST" /\ calls[1].path = <<"v1", "zones">>
            /\ treq.verb = "POST" /\ treq.path = <<"v1", "zones">>
    /\ op = "create_primary_zone_by_axfr" =>
            treq.body = PyStr("{" \o ZoneProperties(margs, "PRIMARY")
                \o ", \"primaryCreateInfo\": {\"forceImport\": true, "
                \o "\"createType\": \"TRANSFER\", \"nameServer\": "
                \o NameServerEntry(margs) \o "}}")
    /\ op = "create_secondary_zone" =>
            treq.body = PyStr("{" \o ZoneProperties(margs, "SECONDARY")
                \o ", \"secondaryCreateInfo\": {\"primaryNameServers\": "
                \o "{\"nameServerIpList\": {\"nameServerIp1\": "
                \o NameServerEntry(margs) \o "}}}}")

\* create_secondary_zone was called with a tsig_key and no key_value: the
\* request went out with the master's ip alone and the method returned what
\* the transport answered.
C22_Witness ==
    /\ margs.method = "create_secondary_zone"
    /\ margs.tsig_key = PyStr("key") /\ margs.key_value = PyNone
    /\ op = "idle" /\ ret.kind = "return"
    /\ Len(calls) = 1 /\ calls[1].verb = "POST" /\ calls[1].res.kind = "ok"

\* create_primary_zone_by_axfr was called with both a tsig_key and a
\* key_value, and its body carries both.
C22_WitnessBoth ==
    /\ op = "create_primary_zone_by_axfr"
    /\ tpc = "done"
    /\ treq.body.s = "{\"properties\": {\"name\": \"z.com\", \"accountName\": \"acct\", \"type\": \"PRIMARY\"}, \"primaryCreateInfo\": {\"forceImport\": true, \"createType\": \"TRANSFER\", \"nameServer\": {\"ip\": \"10.0.0.1\", \"tsigKey\": \"key\", \"tsigKeyValue\": \"secret\"}}}"


\* ------------------------------------------------------------------- C23
\* The polls of the log that were answered IN_PROCESS: n of the claim.
InProcessPolls ==
    {i \in 1..Len(calls) : IsPoll(calls[i]) /\ AnsweredCode(calls[i]) = "IN_PROCESS"}
\* A poll of the log was answered with a status other than IN_PROCESS.
PollingEnded ==
    \E i \in 1..Len(calls) :
        IsPoll(calls[i]) /\ AnsweredCode(calls[i]) \notin {"IN_PROCESS", NONE}

\* C23: in export_zone, if the task status is IN_PROCESS for exactly n
\* consecutive polls and then something else, export_zone makes exactly n+1
\* polls and exactly n sleeps of the same fixed interval, each sleep strictly
\* between two polls: at least one poll always happens, no sleep precedes the
\* first poll, and none follows the last; any status other than IN_PROCESS,
\* including a failure status, ends polling and is followed by the result GET
\* and, the result GET having succeeded, by the DELETE.
C23_PollsAndSleepsAlternate ==
    (margs.method = "export_zone" /\ Len(calls) >= 1) =>
        LET n == Cardinality(InProcessPolls) IN
        \* the POST answered, the first poll is made, with no sleep before it
        /\ calls[1].res.kind = "ok" => Len(calls) >= 2 /\ IsPoll(calls[2])
        /\ Len(calls) < 2 => sleeps = <<>>
        \* one sleep of one second after each poll answered IN_PROCESS, and
        \* a poll after each sleep that is over
        /\ Len(sleeps) = n
        /\ \A k \in 1..Len(sleeps) :
                /\ sleeps[k].secs = 1
                /\ sleeps[k].after = k + 1
                /\ IsPoll(calls[k + 1]) /\ AnsweredCode(calls[k + 1]) = "IN_PROCESS"
                /\ Len(calls) > k + 1 => IsPoll(calls[k + 2])
                /\ (k < Len(sleeps) \/ epc # "sleep") => Len(calls) > k + 1
        \* a status other than IN_PROCESS: n+1 polls, n sleeps, then the
        \* result GET and the DELETE
        /\ PollingEnded =>
                /\ NumPolls(calls) = n + 1
                /\ \A i \in 2..(n + 2) : IsPoll(calls[i])
                /\ AnsweredCode(calls[n + 2]) \in {"COMPLETE", "ERROR"}
                /\ Len(calls) >= n + 3
                /\ IsResultOf(calls[n + 3], PostedId)
                /\ calls[n + 3].res.kind = "ok" =>
                        /\ Len(calls) = n + 4
                        /\ IsClearOf(calls[n + 4], PostedId)
                /\ epc # "sleep"

\* export_zone returned after two polls answered IN_PROCESS and a third
\* answered with the failure status: three polls, two sleeps, then the result
\* GET and the DELETE.
C23_Witness ==
    /\ ExportReturned
    /\ margs.method = "export_zone"
    /\ Len(calls) = 6
    /\ AnsweredCode(calls[2]) = "IN_PROCESS"
    /\ AnsweredCode(calls[3]) = "IN_PROCESS"
    /\ AnsweredCode(calls[4]) = "ERROR"
    /\ sleeps = <<[after |-> 2, secs |-> 1], [after |-> 3, secs |-> 1]>>
    /\ calls[5].path = <<"v1", "tasks", PostedId, "result">>
    /\ calls[6].verb = "DELETE"

\* ------------------------------------------------------------------- C24
\* The calls of the log that failed.
FailedCalls == {i \in 1..Len(calls) : calls[i].res.kind \notin {"ok", "none"}}

\* C24: if any transport call inside export_zone fails (the export POST, a
\* poll, or the result GET), the failure propagates to the caller immediately
\* and export_zone issues no further call; in particular DELETE
\* /v1/tasks/{id} is issued only after a successful result GET, so a failed
\* poll or result fetch leaves the task record undeleted.
C24_ExportFailurePropagates ==
    /\ [](margs.method = "export_zone" =>
            /\ \A i \in FailedCalls :
                    /\ i = Len(calls)
                    /\ op = "idle"
                    /\ ret = Raise(calls[i].res.kind)
            /\ \A i \in 1..Len(calls) :
                    calls[i].verb = "DELETE" =>
                        /\ i >= 2
                        /\ IsResultOf(calls[i - 1], PostedId)
                        /\ calls[i - 1].res.kind = "ok"
                        /\ \A j \in 1..(i - 1) : j \notin FailedCalls)
    /\ [][(/\ op = "export_zone"
           /\ tpc = "done"
           /\ tout.kind # "ok"
           /\ <<op, calls, ret>>' # <<op, calls, ret>>) =>
                /\ op' = "idle"
                /\ ret' = Raise(tout.kind)
                /\ Len(calls') = Len(calls)
                /\ calls'[Len(calls)].res = tout
                /\ tpc' = "idle"]_vars

\* The result GET of an export_zone failed after the polls had ended: the
\* method raised the failure and the log ends with that GET, with no DELETE.
C24_Witness ==
    /\ margs.method = "export_zone"
    /\ op = "idle"
    /\ ret.kind = "raise"
    /\ Len(calls) >= 3
    /\ IsResultOf(calls[Len(calls)], PostedId)
    /\ calls[Len(calls)].res.kind = "ApiError"
    /\ ret.exc = "ApiError"
    /\ \A i \in 1..Len(calls) : calls[i].verb # "DELETE"

\* A poll of an export_zone failed: the method raised the failure and the log
\* ends with that poll.
C24_WitnessPoll ==
    /\ margs.method = "export_zone"
    /\ op = "idle"
    /\ ret.kind = "raise"
    /\ IsPoll(calls[Len(calls)])
    /\ calls[Len(calls)].res.kind \in {"ApiError", "AuthError"}
    /\ Len(calls) >= 3

\* ------------------------------------------------------------------- C26
\* The member of nameServerIpList for the k-th argument: none for None.
NameServerMember(k, ip) ==
    IF ip = PyNone THEN ""
    ELSE "\"nameServerIp" \o ToString(k) \o "\": {\"ip\": \"" \o ip.s \o "\"}"

NonEmptyText(x) == x # ""

\* C26: edit_secondary_name_server builds nameServerIpList with key
\* nameServerIp{k} present exactly when the k-th of (primary, backup,
\* second_backup) is not None, the key number being the argument's position
\* and not a renumbering of the supplied ones; with all three None it still
\* sends a PATCH to /v1/zones/{zone} with an empty nameServerIpList.
C26_NameServerKeysByPosition ==
    op = "edit_secondary_name_server" =>
        /\ Len(calls) = 1
        /\ calls[1].verb = "PATCH"
        /\ calls[1].path = <<"v1", "zones", margs.zone_name>>
        /\ treq.verb = "PATCH" /\ treq.path = calls[1].path
        /\ treq.body = PyStr(
                "{\"secondaryCreateInfo\": {\"primaryNameServers\": "
                \o "{\"nameServerIpList\": {"
                \o join(", ", SelectSeq(<<NameServerMember(1, margs.primary),
                                          NameServerMember(2, margs.backup),
                                          NameServerMember(3, margs.second_backup)>>,
                                        NonEmptyText))
                \o "}}}}")

\* edit_secondary_name_server was called with a backup alone, and the PATCH
\* that came back carried nameServerIp2 and no other key.
C26_Witness ==
    /\ op = "edit_secondary_name_server"
    /\ tpc = "done"
    /\ margs.primary = PyNone /\ margs.second_backup = PyNone
    /\ treq.verb = "PATCH" /\ treq.path = <<"v1", "zones", "z.com">>
    /\ treq.body.s = "{\"secondaryCreateInfo\": {\"primaryNameServers\": {\"nameServerIpList\": {\"nameServerIp2\": {\"ip\": \"10.0.0.2\"}}}}}"

\* edit_secondary_name_server was called with no name server at all, and the
\* PATCH went out with an empty nameServerIpList.
C26_WitnessEmpty ==
    /\ op = "edit_secondary_name_server"
    /\ tpc = "done"
    /\ margs.primary = PyNone /\ margs.backup = PyNone /\ margs.second_backup = PyNone
    /\ treq.verb = "PATCH"
    /\ treq.body.s = "{\"secondaryCreateInfo\": {\"primaryNameServers\": {\"nameServerIpList\": {}}}}"


\* ------------------------------------------------------------------- C25
\* The mapping m with the two dates written into it, as the claim describes
\* the caller's zoneQueryVolume after the call: a key that was there keeps
\* its place and gets the new value, a key that was not is added at the end.
WithDates(m, startDate, endDate) ==
    LET has(key) == \E i \in 1..Len(m.kids) : m.kids[i].k = key
        old == [i \in 1..Len(m.kids) |->
                    IF m.kids[i].k = "startDate" THEN [k |-> "startDate", v |-> PyStr(startDate)]
                    ELSE IF m.kids[i].k = "endDate" THEN [k |-> "endDate", v |-> PyStr(endDate)]
                    ELSE m.kids[i]]
        new == (IF has("startDate") THEN <<>>
                ELSE <<[k |-> "startDate", v |-> PyStr(startDate)]>>)
               \o (IF has("endDate") THEN <<>>
                   ELSE <<[k |-> "endDate", v |-> PyStr(endDate)]>>)
    IN [t |-> "dict", s |-> "", kids |-> old \o new]

\* C25: domain methods do not modify the mappings their caller passes in,
\* with one exception: create_zone_query_volume_report writes startDate and
\* endDate into the caller-supplied zoneQueryVolume mapping in place
\* (overwriting any values already under those keys), so the caller's object
\* is changed after the call; when zoneQueryVolume is omitted a fresh mapping
\* is used on every call: whatever was called before, the body's
\* zoneQueryVolume then holds the two dates and nothing else.
C25_OnlyZoneQueryVolumeWrittenInPlace ==
    /\ op = "get_zones" => margs.q \in Queries /\ margs.kwargs \in Kwargs
    /\ op = "create_zone_query_volume_report" =>
        /\ margs.sortFields \in SortFieldsArgs
        /\ margs.passed # PyNone =>
                /\ margs.zoneQueryVolume
                        = WithDates(margs.passed, margs.startDate, margs.endDate)
                /\ margs.zoneQueryVolume # margs.passed
                /\ GetItem(margs.zoneQueryVolume, "startDate") = PyStr(margs.startDate)
                /\ GetItem(margs.zoneQueryVolume, "endDate") = PyStr(margs.endDate)
        /\ margs.passed = PyNone =>
                /\ margs.zoneQueryVolume = PyNone
                /\ treq.body = PyStr("{\"zoneQueryVolume\": {\"startDate\": \""
                        \o margs.startDate \o "\", \"endDate\": \""
                        \o margs.endDate \o "\"}, \"sortFields\": "
                        \o (IF margs.sortFields \in {PyNone, PyDict(<<>>)}
                            THEN "{\"zoneName\": \"ASC\", \"endDate\": \"ASC\"}"
                            ELSE json_dumps(margs.sortFields))
                        \o "}")

\* create_zone_query_volume_report was called with a mapping that already
\* held dates: the caller's mapping now holds the new dates under the same
\* keys, and the request carrying it came back.
C25_Witness ==
    /\ op = "create_zone_query_volume_report"
    /\ tpc = "done"
    /\ margs.passed = PyDict(<< <<"endDate", PyStr("2025-12-31")>>,
                                <<"zoneName", PyStr("z.com")>>,
                                <<"startDate", PyStr("2025-12-01")>> >>)
    /\ margs.startDate = "2026-01-01" /\ margs.endDate = "2026-02-01"
    /\ margs.zoneQueryVolume = PyDict(<< <<"endDate", PyStr("2026-02-01")>>,
                                         <<"zoneName", PyStr("z.com")>>,
                                         <<"startDate", PyStr("2026-01-01")>> >>)
    /\ treq.body.s = "{\"zoneQueryVolume\": {\"endDate\": \"2026-02-01\", \"zoneName\": \"z.com\", \"startDate\": \"2026-01-01\"}, \"sortFields\": {\"zoneName\": \"ASC\", \"endDate\": \"ASC\"}}"

====
